---- MODULE Spec2Model ----
(***************************************************************************)
(* State-machine model of the HubSpot production -> sandbox migration     *)
(* tool: the HTTP request layer, the object migrators, the association    *)
(* migrators, the selective sync, the migration orchestrator and the      *)
(* rollback manager.  One run of the model is one invocation of one entry *)
(* point (variable prog), chosen together with its inputs in Init.        *)
(***************************************************************************)
EXTENDS Integers, Sequences, FiniteSets, TLC

VARIABLES
    prog,            \* entry point being executed
    pc,              \* position inside that entry point
    reqs,            \* every HTTP request issued so far (method, endpoint, token, ids)
    max_retries,     \* make_hubspot_request parameter
    backoff_factor,  \* make_hubspot_request parameter
    attempt,         \* loop variable of make_hubspot_request
    responses,       \* responses/exceptions received by make_hubspot_request, in order
    slept,           \* arguments of time.sleep inside make_hubspot_request, in order
    http_ok,         \* first component of the tuple make_hubspot_request returned
    source,          \* records held by the production portal, as a sequence of keys
    prod_records,        \* source records the migrator's paginated fetch returned
    sandbox,         \* records held by the sandbox portal: set of [key, id]
    snapshot,        \* sandbox records the migrator listed before its loop
    idx,             \* number of source records the migrator's loop has taken
    created,         \* created_* list of the migrator
    updated,         \* updated_* list of the migrator
    failed,          \* failed_* list of the migrator
    stats,           \* counters returned by migrate_contacts
    mapping,         \* source id -> destination id recorded by the migrator
    contact_mapping, \* production contact id -> sandbox contact id
    company_mapping, \* production company id -> sandbox company id
    assoc,           \* production associations: per deal, its contacts and companies
    seen,            \* associations the migrator obtained from production
    sandbox_deals,   \* deals held by the sandbox during a selective sync
    related_deals,   \* related_deals list of selective_sync_contacts_with_deals
    results,         \* results dict of selective_sync_contacts_with_deals
    report,          \* summary of the report file written, NoReport before
    written,         \* number of report files the run has written
    args,            \* command-line flags handed to run_migration
    is_secure,       \* what config.is_secure() answers
    steps,           \* migration steps run_migration has called and seen return
    run_result,      \* what run_migration returned: "success", "failed", "none" before
    runs,            \* counts of the completed runs of a sync script, in order
    call,            \* library function called on its own, with its arguments
    ret              \* what that call returned

httpVars == <<max_retries, backoff_factor, attempt, responses, slept, http_ok>>

migVars == <<source, prod_records, sandbox, snapshot, idx, created, updated, failed, stats, mapping>>

assocVars == <<contact_mapping, company_mapping, assoc, seen>>

selVars == <<sandbox_deals, related_deals, results>>

runVars == <<args, is_secure, steps, run_result>>

libVars == <<call, ret>>

reportVars == <<report, written>>

vars == <<prog, pc, reqs, httpVars, migVars, assocVars, selVars, reportVars, runVars, runs, libVars>>

----------------------------------------------------------------------------
(* Bounds of the exploration *)

MaxRetries == 3

MaxRecords == 2

----------------------------------------------------------------------------
(* Tokens and requests *)

prod_token == "production"

sandbox_token == "sandbox"

\* A request as the transport sees it; a and b carry the ids the URL or body names.
Request(method, endpoint, token, a, b) ==
    [method |-> method, endpoint |-> endpoint, token |-> token, a |-> a, b |-> b]

SearchEndpoints == {"contacts/search", "deals/search", "companies/search", "tickets/search"}

\* A request that changes data at the portal that receives it.
IsWrite(r) ==
    \/ r.method \in {"PATCH", "DELETE", "PUT"}
    \/ r.method = "POST" /\ r.endpoint \notin SearchEndpoints

----------------------------------------------------------------------------
(* utils.make_hubspot_request *)

NoHeader == -1

Malformed == -2

RetryAfterCap == 300

RateLimitCap == 60

ServerErrorCap == 30

NetworkErrorCap == 10

RetryAfterValues == {0, 2, 400}

BackoffFactors == {2, 8}

ServerStatuses == {200, 201, 202, 204, 400, 404, 409, 429, 500, 501, 503}

Exceptions == {"Timeout", "ConnectionError", "RequestException"}

Responses ==
    {[exc |-> "none", status |-> s, retry_after |-> NoHeader] : s \in ServerStatuses}
    \cup {[exc |-> "none", status |-> 429, retry_after |-> h] :
             h \in RetryAfterValues \cup {Malformed}}
    \cup {[exc |-> e, status |-> 0, retry_after |-> NoHeader] : e \in Exceptions}

RECURSIVE Pow(_, _)
Pow(b, n) == IF n = 0 THEN 1 ELSE b * Pow(b, n - 1)

Min(x, y) == IF x <= y THEN x ELSE y

attempts_range_one_more(maxr) == 0 .. (maxr + 1)
attempts_range(maxr) == 0 .. maxr

success_status_without_409(status) == status \in {200, 201, 202, 204}
success_status(status) == status \in {200, 201, 202} \/ status = 204 \/ status = 409

\* sleep_time = min(int(retry_after), 300)
retry_after_sleep_uncapped(retry_after) == retry_after
retry_after_sleep(retry_after) == Min(retry_after, RetryAfterCap)

\* One iteration of the retry loop: does the function return, with which ok,
\* and how long did it sleep (-1: no sleep).
attempt_outcome(r, att, maxr, bf) ==
    IF r.exc = "none" THEN
        IF success_status(r.status) THEN
            [ret |-> TRUE, ok |-> TRUE, sleep |-> -1]
        ELSE IF r.status = 429 THEN
            IF att < maxr THEN
                IF r.retry_after = Malformed THEN
                    \* int(retry_after) raises ValueError: generic handler
                    [ret |-> TRUE, ok |-> FALSE, sleep |-> -1]
                ELSE IF r.retry_after # NoHeader THEN
                    [ret |-> FALSE, ok |-> FALSE,
                     sleep |-> retry_after_sleep(r.retry_after)]
                ELSE
                    [ret |-> FALSE, ok |-> FALSE,
                     sleep |-> Min(Pow(bf, att), RateLimitCap)]
            ELSE [ret |-> TRUE, ok |-> FALSE, sleep |-> -1]
        ELSE IF r.status \in {500, 502, 503, 504} /\ att < maxr THEN
            [ret |-> FALSE, ok |-> FALSE, sleep |-> Min(Pow(bf, att), ServerErrorCap)]
        ELSE [ret |-> TRUE, ok |-> FALSE, sleep |-> -1]
    ELSE IF r.exc \in {"Timeout", "ConnectionError"} THEN
        IF att < maxr THEN
            [ret |-> FALSE, ok |-> FALSE, sleep |-> Min(Pow(bf, att), NetworkErrorCap)]
        ELSE [ret |-> FALSE, ok |-> FALSE, sleep |-> -1]
    ELSE [ret |-> TRUE, ok |-> FALSE, sleep |-> -1]

\* One pass through the body of the for loop, including the fall-through to
\* the "max retries exceeded" return when the range is used up.
make_hubspot_request(r) ==
    /\ prog = "http"
    /\ pc = "request"
    /\ attempt \in attempts_range(max_retries)
    /\ reqs' = reqs \cup {Request("GET", "contacts", prod_token, attempt, 0)}
    /\ responses' = Append(responses, r)
    /\ LET o == attempt_outcome(r, attempt, max_retries, backoff_factor) IN
        /\ slept' = IF o.sleep >= 0 THEN Append(slept, o.sleep) ELSE slept
        /\ IF o.ret
           THEN /\ pc' = "returned"
                /\ http_ok' = o.ok
                /\ attempt' = attempt
           ELSE IF attempt + 1 \in attempts_range(max_retries)
           THEN /\ pc' = "request"
                /\ http_ok' = http_ok
                /\ attempt' = attempt + 1
           ELSE /\ pc' = "returned"
                /\ http_ok' = FALSE
                /\ attempt' = attempt
    /\ UNCHANGED <<prog, libVars, runs, runVars, max_retries, backoff_factor, migVars, assocVars, selVars, reportVars>>

----------------------------------------------------------------------------
(* Portals, records and the results of a create request *)

None == 0

unknown == -1

Keys == {"a", "b"}

\* A source listing: record i has id i and key source[i] ("" when the key
\* property -- email, dealname, subject -- is not set).
Sources == UNION {[1 .. n -> Keys \cup {""}] : n \in 0 .. MaxRecords}

ExistingId(k) == IF k = "a" THEN 101 ELSE 102

NewId(i) == 200 + i

PreExisting(S) == {[key |-> k, id |-> ExistingId(k)] : k \in S}

Portals == {PreExisting(S) : S \in SUBSET Keys}

ids(portal) == {s.id : s \in portal}

Holds(portal, key) == \E s \in portal : s.key = key

\* What make_hubspot_request hands back for a POST that creates an object:
\* "created"  (True, body with the new id)        -- 200/201
\* "conflict" (True, body without an id)          -- 409, or a non-JSON body
\* "error"    (False, error info)
Outcomes == {"created", "conflict", "error"}

NoReport == [kind |-> "none"]

ZeroResults == [contacts_synced |-> 0, deals_synced |-> 0, companies_synced |-> 0,
                associations_created |-> 0]

ZeroStats == [migrated |-> 0, updated |-> 0, failed |-> 0, total |-> 0]

Bump(st, field) == [st EXCEPT ![field] = @ + 1]

----------------------------------------------------------------------------
(* migrations/contact_migration.py *)

find_contact_by_email(search_ok, email, portal) ==
    IF search_ok /\ Holds(portal, email)
    THEN (CHOOSE s \in portal : s.key = email).id
    ELSE None

create_contact_in_sandbox(outcome, new_id) ==
    IF outcome = "error" THEN [ok |-> FALSE, id |-> None]
    ELSE [ok |-> TRUE, id |-> IF outcome = "created" THEN new_id ELSE unknown]

create_contact_request(token, i) == Request("POST", "contacts", token, i, 0)

update_contact_request(token, i, id) == Request("PATCH", "contacts/{id}", token, i, id)

VerifyPaths == {"props_failed", "get_failed", "complete", "fixed"}

\* Requests of _verify_contact_properties, by the path it takes.
verify_contact_requests(token, i, id, path) ==
    {Request("GET", "properties/contacts", token, 0, 0)}
    \cup (IF path # "props_failed"
          THEN {Request("GET", "contacts/{id}", token, i, id)} ELSE {})
    \cup (IF path = "fixed"
          THEN {Request("PATCH", "contacts/{id}", token, i, id)} ELSE {})

\* get_writable_properties and get_contacts_from_production, then the early
\* returns of migrate_contacts.
migrate_contacts_fetch(props_ok, contacts_ok) ==
    /\ prog = "contacts"
    /\ pc = "start"
    /\ reqs' = reqs
         \cup {Request("GET", "properties/contacts", prod_token, 0, 0)}
         \cup (IF props_ok THEN {Request("GET", "contacts", prod_token, 0, 0)} ELSE {})
    /\ IF props_ok /\ contacts_ok /\ Len(source) > 0
       THEN /\ pc' = "loop"
            /\ stats' = [ZeroStats EXCEPT !.total = Len(source)]
       ELSE /\ pc' = "aborted"
            /\ stats' = ZeroStats
    /\ UNCHANGED <<prog, libVars, runs, runVars, httpVars, assocVars, selVars, reportVars, source, prod_records, sandbox, snapshot, idx, created,
                   updated, failed, mapping>>

\* One iteration of the loop of migrate_contacts.
migrate_contacts_step(search_ok, has_props, outcome, path) ==
    /\ prog = "contacts"
    /\ pc = "loop"
    /\ idx < Len(source)
    /\ LET i == idx + 1
           email == source[i]
           existing_contact_id ==
               IF email # "" THEN find_contact_by_email(search_ok, email, sandbox)
               ELSE None
           search == IF email # ""
                     THEN {Request("POST", "contacts/search", sandbox_token, i, 0)}
                     ELSE {}
           res == create_contact_in_sandbox(outcome, NewId(i))
       IN
        IF existing_contact_id # None THEN
            /\ reqs' = reqs \cup search
                 \cup (IF has_props
                       THEN {update_contact_request(sandbox_token, i, existing_contact_id)}
                       ELSE {})
            /\ stats' = IF ~has_props \/ outcome # "error"
                        THEN Bump(stats, "updated") ELSE Bump(stats, "failed")
            /\ created' = created
            /\ updated' = IF ~has_props \/ outcome # "error"
                          THEN Append(updated, i) ELSE updated
            /\ failed' = IF ~has_props \/ outcome # "error"
                         THEN failed ELSE Append(failed, i)
            /\ sandbox' = sandbox
        ELSE
            \* the portal keeps emails unique: it creates only a new email
            /\ outcome = "created" => (email = "" \/ ~Holds(sandbox, email))
            /\ reqs' = reqs \cup search
                 \cup {create_contact_request(sandbox_token, i)}
                 \cup (IF res.ok
                       THEN verify_contact_requests(sandbox_token, i, res.id, path)
                       ELSE {})
            /\ stats' = IF res.ok THEN Bump(stats, "migrated") ELSE Bump(stats, "failed")
            /\ created' = IF res.ok THEN Append(created, i) ELSE created
            /\ updated' = updated
            /\ failed' = IF res.ok THEN failed ELSE Append(failed, i)
            /\ sandbox' = IF outcome = "created"
                          THEN sandbox \cup {[key |-> email, id |-> NewId(i)]}
                          ELSE sandbox
    /\ idx' = idx + 1
    /\ pc' = IF idx + 1 = Len(source) THEN "done" ELSE "loop"
    /\ UNCHANGED <<prog, libVars, runs, runVars, httpVars, assocVars, selVars, reportVars, source, prod_records, snapshot, mapping>>

----------------------------------------------------------------------------
(* migrations/deal_migrator.py, ticket_migrator.py, custom_object_migrator.py *)

\* find_existing_deal / find_existing_ticket: match on the name alone, in the
\* listing taken before the loop; an unset name never matches.
find_existing(name, listing) ==
    IF name # "" /\ Holds(listing, name)
    THEN (CHOOSE s \in listing : s.key = name).id
    ELSE None

\* create_deal, create_ticket, create_custom_object: headers built from
\* self.sandbox_token
create_deal_request_with_prod_token(i) == Request("POST", "deals", prod_token, i, 0)
create_deal_request(i) == Request("POST", "deals", sandbox_token, i, 0)

create_ticket_request(i) == Request("POST", "tickets", sandbox_token, i, 0)

create_custom_object_request(i) == Request("POST", "custom_objects", sandbox_token, i, 0)

\* The portal's state after answering a create request.
AfterCreate(portal, outcome, key, i) ==
    IF outcome = "created" THEN portal \cup {[key |-> key, id |-> NewId(i)]} ELSE portal

\* result.get('id'): None when the body carries no id
result_get_id(outcome, i) == IF outcome = "created" THEN NewId(i) ELSE None

\* The answer to the request for one page of a listing: whether
\* make_hubspot_request returned success, how many records 'results' holds
\* and whether 'paging.next.after' is present.
PageLens == {0, 1, 2}

FailedPage == [ok |-> FALSE, n |-> 0, next |-> FALSE]

PageAnswers == {FailedPage} \cup [ok : {TRUE}, n : PageLens, next : BOOLEAN]

\* get_deals_batch, get_tickets_batch: ([], None) when the request failed,
\* else the records of the page, named by page and position.
get_batch(pages, k) ==
    IF k <= Len(pages) /\ pages[k].ok
    THEN [j \in 1 .. pages[k].n |-> <<k, j>>]
    ELSE <<>>

\* all_deals = all_deals[:limit]
cut_keeping_all(all, limit) == all

cut(all, limit) == SubSeq(all, 1, Min(limit, Len(all)))

\* The while loop shared by get_all_deals, get_all_tickets and
\* get_custom_objects, from the request for page k on.
RECURSIVE paginate(_, _, _, _)
paginate(pages, limit, k, all) ==
    LET batch == get_batch(pages, k)
        extended == all \o batch
    IN  IF batch = <<>> THEN [all |-> all, requested |-> k]
        ELSE IF limit # None /\ Len(extended) >= limit
             THEN [all |-> cut(extended, limit), requested |-> k]
        ELSE IF ~pages[k].next THEN [all |-> extended, requested |-> k]
        ELSE paginate(pages, limit, k + 1, extended)

\* The records a fetch returns and the number of pages it requested.
NothingFetched == [all |-> <<>>, requested |-> 0]

\* DealMigrator.get_all_deals
get_all_deals_pages(pages, limit) == paginate(pages, limit, 1, <<>>)

get_all_deals(pages, limit) == get_all_deals_pages(pages, limit).all

\* TicketMigrator.get_all_tickets: [] when the property list cannot be read
get_all_tickets_pages(props_ok, pages, limit) ==
    IF props_ok THEN paginate(pages, limit, 1, <<>>) ELSE NothingFetched

get_all_tickets(props_ok, pages, limit) == get_all_tickets_pages(props_ok, pages, limit).all

\* CustomObjectMigrator.get_custom_objects: a failed request breaks the loop
get_custom_objects_pages(pages, limit) == paginate(pages, limit, 1, <<>>)

get_custom_objects(pages, limit) == get_custom_objects_pages(pages, limit).all

\* batch_size = 100 of the three fetches, scaled to the listings explored.
PageSize == 1

NumPages(n) == (n + PageSize - 1) \div PageSize

\* What a portal holding n records answers, page by page, when the request
\* for page failing fails (0: none fails).
ServerPages(n, failing) ==
    [k \in 1 .. NumPages(n) |->
        IF k = failing THEN FailedPage
        ELSE [ok |-> TRUE, n |-> Min(PageSize, n - (k - 1) * PageSize),
              next |-> k < NumPages(n)]]

\* The source ids of the records a fetch returned.
record_index(all) == [m \in 1 .. Len(all) |-> (all[m][1] - 1) * PageSize + all[m][2]]

\* The fetches that precede the loop of an object migrator: the sandbox
\* property list, then the production listing, then the sandbox listing.
listing_requests(object, props_ok, listed) ==
    {Request("GET", "properties/" \o object, sandbox_token, 0, 0)}
    \cup (IF props_ok
          THEN {Request("GET", "properties/" \o object, prod_token, 0, 0),
                Request("GET", object, prod_token, 0, 0)}
          ELSE {})
    \cup (IF props_ok /\ listed
          THEN {Request("GET", object, sandbox_token, 0, 0)}
          ELSE {})

\* DealMigrator.migrate_deals up to its loop.
migrate_deals_fetch(report_found, props_ok, failing, sandbox_ok) ==
    /\ prog = "deals"
    /\ pc = "start"
    /\ LET prod_deals ==
               record_index(get_all_deals(ServerPages(Len(source), failing), None))
       IN
        /\ reqs' = IF report_found
                   THEN reqs \cup listing_requests("deals", props_ok, prod_deals # <<>>)
                   ELSE reqs
        /\ pc' = IF report_found /\ props_ok /\ prod_deals # <<>>
                 THEN "loop" ELSE "aborted"
        /\ prod_records' = IF report_found /\ props_ok THEN prod_deals ELSE <<>>
    /\ snapshot' = IF sandbox_ok THEN sandbox ELSE {}
    /\ UNCHANGED <<prog, libVars, runs, runVars, httpVars, assocVars, selVars, reportVars, source, sandbox, idx, created, updated,
                   failed, stats, mapping>>

\* One iteration of the loop of DealMigrator.migrate_deals.
migrate_deals_step(outcome) ==
    /\ prog = "deals"
    /\ pc = "loop"
    /\ idx < Len(prod_records)
    /\ LET i == prod_records[idx + 1]
           deal_name == source[i]
           existing_deal == find_existing(deal_name, snapshot)
       IN
        IF existing_deal # None THEN
            /\ updated' = Append(updated, [prod_id |-> i, sandbox_id |-> existing_deal])
            /\ UNCHANGED <<reqs, created, failed, sandbox>>
        ELSE
            /\ reqs' = reqs \cup {create_deal_request(i)}
            /\ sandbox' = AfterCreate(sandbox, outcome, deal_name, i)
            /\ IF outcome # "error"
               THEN /\ created' = Append(created,
                            [prod_id |-> i, sandbox_id |-> result_get_id(outcome, i)])
                    /\ failed' = failed
               ELSE /\ failed' = Append(failed, [prod_id |-> i])
                    /\ created' = created
            /\ updated' = updated
    /\ idx' = idx + 1
    /\ pc' = IF idx + 1 = Len(prod_records) THEN "done" ELSE "loop"
    /\ UNCHANGED <<prog, libVars, runs, runVars, httpVars, assocVars, selVars, reportVars, source, prod_records, snapshot, stats, mapping>>

\* TicketMigrator.migrate_tickets up to its loop.
migrate_tickets_fetch(props_ok, failing, sandbox_ok) ==
    /\ prog = "tickets"
    /\ pc = "start"
    /\ LET prod_tickets ==
               record_index(get_all_tickets(TRUE, ServerPages(Len(source), failing), None))
       IN
        /\ reqs' = reqs \cup listing_requests("tickets", props_ok, prod_tickets # <<>>)
        /\ pc' = IF props_ok /\ prod_tickets # <<>> THEN "loop" ELSE "aborted"
        /\ prod_records' = IF props_ok THEN prod_tickets ELSE <<>>
    /\ snapshot' = IF sandbox_ok THEN sandbox ELSE {}
    /\ UNCHANGED <<prog, libVars, runs, runVars, httpVars, assocVars, selVars, reportVars, source, sandbox, idx, created, updated,
                   failed, stats, mapping>>

\* One iteration of the loop of TicketMigrator.migrate_tickets;
\* result['id'] raises KeyError when the body carries no id.
migrate_tickets_step(outcome) ==
    /\ prog = "tickets"
    /\ pc = "loop"
    /\ idx < Len(prod_records)
    /\ LET i == prod_records[idx + 1]
           subject == source[i]
           existing == find_existing(subject, snapshot)
       IN
        IF existing # None THEN
            /\ mapping' = (i :> existing) @@ mapping
            /\ updated' = Append(updated, i)
            /\ pc' = IF idx + 1 = Len(prod_records) THEN "done" ELSE "loop"
            /\ UNCHANGED <<reqs, created, failed, sandbox>>
        ELSE
            /\ reqs' = reqs \cup {create_ticket_request(i)}
            /\ sandbox' = AfterCreate(sandbox, outcome, subject, i)
            /\ updated' = updated
            /\ IF outcome = "created"
               THEN /\ mapping' = (i :> NewId(i)) @@ mapping
                    /\ created' = Append(created, i)
                    /\ failed' = failed
                    /\ pc' = IF idx + 1 = Len(prod_records) THEN "done" ELSE "loop"
               ELSE IF outcome = "conflict"
               THEN /\ pc' = "crashed"
                    /\ UNCHANGED <<mapping, created, failed>>
               ELSE /\ failed' = Append(failed, i)
                    /\ pc' = IF idx + 1 = Len(prod_records) THEN "done" ELSE "loop"
                    /\ UNCHANGED <<mapping, created>>
    /\ idx' = idx + 1
    /\ UNCHANGED <<prog, libVars, runs, runVars, httpVars, assocVars, selVars, reportVars, source, prod_records, snapshot, stats>>

\* CustomObjectMigrator.migrate_custom_object_type up to its loop (the
\* property pass creates nothing here: the schemas agree).
migrate_custom_object_type_fetch(failing, sandbox_ok) ==
    /\ prog = "custom"
    /\ pc = "start"
    /\ LET prod_objects ==
               record_index(get_custom_objects(ServerPages(Len(source), failing), None))
       IN
        /\ reqs' = reqs \cup listing_requests("custom_objects", TRUE, prod_objects # <<>>)
        /\ pc' = IF prod_objects # <<>> THEN "loop" ELSE "aborted"
        /\ prod_records' = prod_objects
    /\ snapshot' = IF sandbox_ok THEN sandbox ELSE {}
    /\ UNCHANGED <<prog, libVars, runs, runVars, httpVars, assocVars, selVars, reportVars, source, sandbox, idx, created, updated,
                   failed, stats, mapping>>

\* One iteration of the loop of migrate_custom_object_type: no lookup of an
\* existing object, and result['id'] as in the ticket migrator.
migrate_custom_object_type_step(outcome) ==
    /\ prog = "custom"
    /\ pc = "loop"
    /\ idx < Len(prod_records)
    /\ LET i == prod_records[idx + 1] IN
        /\ reqs' = reqs \cup {create_custom_object_request(i)}
        /\ sandbox' = AfterCreate(sandbox, outcome, source[i], i)
        /\ IF outcome = "created"
           THEN /\ mapping' = (i :> NewId(i)) @@ mapping
                /\ created' = Append(created, i)
                /\ failed' = failed
                /\ pc' = IF idx + 1 = Len(prod_records) THEN "done" ELSE "loop"
           ELSE IF outcome = "conflict"
           THEN /\ pc' = "crashed"
                /\ UNCHANGED <<mapping, created, failed>>
           ELSE /\ failed' = Append(failed, i)
                /\ pc' = IF idx + 1 = Len(prod_records) THEN "done" ELSE "loop"
                /\ UNCHANGED <<mapping, created>>
    /\ idx' = idx + 1
    /\ UNCHANGED <<prog, libVars, runs, runVars, httpVars, assocVars, selVars, reportVars, source, prod_records, snapshot, updated, stats>>

----------------------------------------------------------------------------
(* migrations/deal_association_migrator.py *)

ContactIds == {1, 2}

CompanyIds == {1}

SandboxContactId(c) == 300 + c

SandboxCompanyId(c) == 400 + c

\* The mappings load_mappings builds from the reports of earlier runs.
DealMappings == {[d \in 1 .. n |-> NewId(d)] : n \in 0 .. MaxRecords}

ContactMappings == {[c \in D |-> SandboxContactId(c)] : D \in SUBSET ContactIds}

CompanyMappings == {[c \in D |-> SandboxCompanyId(c)] : D \in SUBSET CompanyIds}

Associations(n) ==
    {[contacts |-> f, companies |-> g] :
        f \in [1 .. n -> SUBSET ContactIds], g \in [1 .. n -> SUBSET CompanyIds]}

association_request(from_type, to_type, from_id, to_id) ==
    Request("POST", "associations/" \o from_type \o "/" \o to_type \o "/batch/create",
            sandbox_token, from_id, to_id)

RECURSIVE SumCounts(_)
SumCounts(entries) ==
    IF entries = <<>> THEN 0 ELSE Head(entries).count + SumCounts(Tail(entries))

OfType(entries, type) == SelectSeq(entries, LAMBDA e : e.type = type)

\* load_mappings: False when no report file was found.
load_mappings(found) ==
    /\ prog = "dealassoc"
    /\ pc = "start"
    /\ pc' = IF ~found THEN "aborted"
             ELSE IF Len(mapping) = 0 THEN "report" ELSE "loop"
    /\ UNCHANGED <<prog, libVars, runs, runVars, reqs, httpVars, migVars, assocVars, selVars, reportVars>>

\* One iteration of the loop of migrate_deal_associations.
migrate_deal_associations_step(contacts_ok, companies_ok, contact_batch_ok, company_batch_ok) ==
    /\ prog = "dealassoc"
    /\ pc = "loop"
    /\ idx < Len(mapping)
    /\ LET prod_deal_id == idx + 1
           sandbox_deal_id == mapping[prod_deal_id]
           prod_contacts == IF contacts_ok THEN assoc.contacts[prod_deal_id] ELSE {}
           prod_companies == IF companies_ok THEN assoc.companies[prod_deal_id] ELSE {}
           sandbox_contacts ==
               {contact_mapping[c] : c \in prod_contacts \cap DOMAIN contact_mapping}
           sandbox_companies ==
               {company_mapping[c] : c \in prod_companies \cap DOMAIN company_mapping}
       IN
        /\ reqs' = reqs
             \cup {Request("GET", "deals/{id}/associations/contacts", prod_token,
                           prod_deal_id, 0),
                   Request("GET", "deals/{id}/associations/companies", prod_token,
                           prod_deal_id, 0)}
             \cup {association_request("deals", "contacts", sandbox_deal_id, t) :
                      t \in sandbox_contacts}
             \cup {association_request("deals", "companies", sandbox_deal_id, t) :
                      t \in sandbox_companies}
        /\ seen' = [contacts |-> Append(seen.contacts, prod_contacts),
                    companies |-> Append(seen.companies, prod_companies)]
        /\ created' = created
             \o (IF sandbox_contacts # {} /\ contact_batch_ok
                 THEN <<[type |-> "contact", deal_id |-> sandbox_deal_id,
                         ids |-> sandbox_contacts,
                         count |-> Cardinality(sandbox_contacts)]>>
                 ELSE <<>>)
             \o (IF sandbox_companies # {} /\ company_batch_ok
                 THEN <<[type |-> "company", deal_id |-> sandbox_deal_id,
                         ids |-> sandbox_companies,
                         count |-> Cardinality(sandbox_companies)]>>
                 ELSE <<>>)
        /\ failed' = failed
             \o (IF sandbox_contacts # {} /\ ~contact_batch_ok
                 THEN <<[type |-> "contact", deal_id |-> sandbox_deal_id]>> ELSE <<>>)
             \o (IF sandbox_companies # {} /\ ~company_batch_ok
                 THEN <<[type |-> "company", deal_id |-> sandbox_deal_id]>> ELSE <<>>)
    /\ idx' = idx + 1
    /\ pc' = IF idx + 1 = Len(mapping) THEN "report" ELSE "loop"
    /\ UNCHANGED <<prog, libVars, runs, runVars, httpVars, source, prod_records, sandbox, snapshot, updated, stats,
                   mapping, contact_mapping, company_mapping, assoc, selVars, reportVars>>

\* generate_association_report, called by migrate_deal_associations() once
\* the migrator returned True.
generate_association_report ==
    /\ prog = "dealassoc"
    /\ pc = "report"
    /\ written' = written + 1
    /\ report' =
         [kind |-> "deal_association",
          summary |->
            [contact_associations_created |-> Len(OfType(created, "contact")),
             company_associations_created |-> Len(OfType(created, "company")),
             failed_associations |-> Len(failed),
             total_contact_links |-> SumCounts(OfType(created, "contact")),
             total_company_links |-> SumCounts(OfType(created, "company"))]]
    /\ pc' = "done"
    /\ UNCHANGED <<prog, libVars, runs, runVars, reqs, httpVars, migVars, assocVars, selVars>>

----------------------------------------------------------------------------
(* core/selective_sync.py: selective_sync_contacts_with_deals *)

DealName == "d"

\* The deals associated with production contact i, in listing order.
RECURSIVE deals_of(_, _, _)
deals_of(i, d, n) ==
    IF d > n THEN <<>>
    ELSE (IF i \in assoc.contacts[d] THEN <<d>> ELSE <<>>) \o deals_of(i, d + 1, n)

\* get_related_deals_for_contacts: one association listing per contact; a
\* listing that fails contributes nothing.
RECURSIVE get_related_deals_for_contacts(_, _, _)
get_related_deals_for_contacts(i, n, fetched) ==
    IF i > n THEN <<>>
    ELSE (IF i \in fetched THEN deals_of(i, 1, Len(assoc.contacts)) ELSE <<>>)
         \o get_related_deals_for_contacts(i + 1, n, fetched)

Range(seq) == {seq[k] : k \in 1 .. Len(seq)}

\* Steps 1 to 3: target contacts, related deals, related companies (the
\* production portal holds no company here).
selective_fetch(contacts_ok, fetched) ==
    /\ prog = "selective"
    /\ pc = "start"
    /\ LET contact_ids == IF contacts_ok THEN 1 .. Len(source) ELSE {}
           deals == get_related_deals_for_contacts(1, Len(source),
                                                   fetched \cap contact_ids)
       IN
        /\ related_deals' = deals
        /\ reqs' = reqs
             \cup {Request("POST", "contacts/search", prod_token, 0, 0)}
             \cup (IF contact_ids # {}
                   THEN {Request("GET", "properties/contacts", prod_token, 0, 0),
                         Request("GET", "properties/contacts", sandbox_token, 0, 0)}
                   ELSE {})
             \cup {Request("GET", "contacts/{id}", prod_token, i, 0) : i \in contact_ids}
             \cup {Request("GET", "contacts/{id}/associations/deals", prod_token, i, 0) :
                      i \in contact_ids}
             \cup {Request("GET", "deals/{id}", prod_token, d, 0) : d \in Range(deals)}
             \cup {Request("GET", "contacts/{id}/associations/companies", prod_token, i, 0) :
                      i \in contact_ids}
        /\ pc' = IF contact_ids # {} THEN "contacts" ELSE "report"
    /\ UNCHANGED <<prog, libVars, runs, runVars, httpVars, migVars, assocVars, sandbox_deals, results, reportVars>>

\* Where selective_sync_contacts_with_deals goes after the contact loop.
after_contacts == IF related_deals # <<>> THEN "deals" ELSE "report"

\* One iteration of the loop of _migrate_specific_contacts: an update and a
\* create both add to migrated_count, a failure is only printed.
migrate_specific_contacts_step(search_ok, has_props, outcome, path) ==
    /\ prog = "selective"
    /\ pc = "contacts"
    /\ idx < Len(source)
    /\ LET i == idx + 1
           email == source[i]
           existing_id ==
               IF email # "" THEN find_contact_by_email(search_ok, email, sandbox)
               ELSE None
           search == IF email # ""
                     THEN {Request("POST", "contacts/search", sandbox_token, i, 0)}
                     ELSE {}
           res == create_contact_in_sandbox(outcome, NewId(i))
           success == IF existing_id # None THEN ~has_props \/ outcome # "error"
                      ELSE res.ok
           target == IF existing_id # None THEN existing_id ELSE res.id
       IN
        /\ existing_id = None /\ outcome = "created" =>
               (email = "" \/ ~Holds(sandbox, email))
        /\ reqs' = reqs \cup search
             \cup (IF existing_id # None /\ has_props
                   THEN {update_contact_request(sandbox_token, i, existing_id)} ELSE {})
             \cup (IF existing_id = None
                   THEN {create_contact_request(sandbox_token, i)} ELSE {})
             \cup (IF success
                   THEN verify_contact_requests(sandbox_token, i, target, path) ELSE {})
        /\ results' = IF success
                      THEN [results EXCEPT !.contacts_synced = @ + 1] ELSE results
        /\ sandbox' = IF existing_id = None
                      THEN AfterCreate(sandbox, outcome, email, i) ELSE sandbox
    /\ idx' = IF idx + 1 = Len(source) THEN 0 ELSE idx + 1
    /\ pc' = IF idx + 1 = Len(source) THEN after_contacts ELSE "contacts"
    /\ UNCHANGED <<prog, libVars, runs, runVars, httpVars, source, prod_records, snapshot, created, updated, failed, stats,
                   mapping, assocVars, sandbox_deals, related_deals, reportVars>>

\* _create_deal_in_sandbox: data.get('id', 'unknown')
create_deal_in_sandbox(outcome, new_id) ==
    IF outcome = "error" THEN [ok |-> FALSE, id |-> None]
    ELSE [ok |-> TRUE, id |-> IF outcome = "created" THEN new_id ELSE unknown]

\* One iteration of the loop of _migrate_specific_deals; existing is what
\* _find_deal_by_name_and_amount returned (first search hit, or None).
migrate_specific_deals_step(existing, outcome) ==
    /\ prog = "selective"
    /\ pc = "deals"
    /\ idx < Len(related_deals)
    /\ existing \in ids(sandbox_deals) \cup {None}
    /\ LET production_deal_id == related_deals[idx + 1]
           res == create_deal_in_sandbox(outcome, NewId(idx + 1))
       IN
        /\ reqs' = reqs
             \cup {Request("POST", "deals/search", sandbox_token, production_deal_id, 0)}
             \cup (IF existing = None
                   THEN {Request("POST", "deals", sandbox_token, production_deal_id, 0)}
                   ELSE {})
        /\ mapping' = IF existing # None THEN (production_deal_id :> existing) @@ mapping
                      ELSE IF res.ok THEN (production_deal_id :> res.id) @@ mapping
                      ELSE mapping
        /\ results' = IF existing # None \/ res.ok
                      THEN [results EXCEPT !.deals_synced = @ + 1] ELSE results
        /\ sandbox_deals' = IF existing = None
                            THEN AfterCreate(sandbox_deals, outcome, DealName, idx + 1)
                            ELSE sandbox_deals
    /\ idx' = IF idx + 1 = Len(related_deals) THEN 0 ELSE idx + 1
    /\ pc' = IF idx + 1 = Len(related_deals) THEN "mapping" ELSE "deals"
    /\ UNCHANGED <<prog, libVars, runs, runVars, httpVars, source, prod_records, sandbox, snapshot, created, updated, failed,
                   stats, assocVars, related_deals, reportVars>>

\* _get_contact_id_mapping then the guards of _create_selective_associations:
\* got are the contacts whose production GET succeeded, found those whose
\* sandbox search succeeded as well.
get_contact_id_mapping(got, found) ==
    /\ prog = "selective"
    /\ pc = "mapping"
    /\ found \subseteq got
    /\ LET searched == {i \in got : source[i] # ""}
           resolved == {i \in searched \cap found : Holds(sandbox, source[i])}
           old_to_new_contacts ==
               [i \in resolved |-> find_contact_by_email(TRUE, source[i], sandbox)]
       IN
        /\ contact_mapping' = old_to_new_contacts
        /\ reqs' = reqs
             \cup {Request("GET", "contacts/{id}", prod_token, i, 0) :
                      i \in 1 .. Len(source)}
             \cup {Request("POST", "contacts/search", sandbox_token, i, 0) :
                      i \in searched}
        /\ pc' = IF resolved # {} /\ DOMAIN mapping # {} THEN "associations"
                 ELSE "report"
    /\ UNCHANGED <<prog, libVars, runs, runVars, httpVars, migVars, company_mapping, assoc, seen, selVars,
                   reportVars>>

\* _create_association: True on success and on a 400 "already exists"
create_association(outcome) == outcome \in {"ok", "exists"}

AssociationOutcomes == {"ok", "exists", "error"}

\* One iteration of the contact-to-deal loop of _create_selective_associations;
\* outcome[d] is the answer to the association request for deal d.
create_selective_associations_step(get_ok, outcome) ==
    /\ prog = "selective"
    /\ pc = "associations"
    /\ idx < Len(source)
    /\ LET prod_contact_id == idx + 1
           listed == prod_contact_id \in DOMAIN contact_mapping
           prod_deal_ids ==
               IF listed /\ get_ok
               THEN Range(deals_of(prod_contact_id, 1, Len(assoc.contacts))) ELSE {}
           mapped == prod_deal_ids \cap DOMAIN mapping
       IN
        /\ reqs' = reqs
             \cup (IF listed
                   THEN {Request("GET", "contacts/{id}/associations/deals", prod_token,
                                 prod_contact_id, 0)}
                   ELSE {})
             \cup {association_request("contacts", "deals",
                                       contact_mapping[prod_contact_id], mapping[d]) :
                      d \in mapped}
        /\ seen' = seen \cup {<<prod_contact_id, d>> : d \in prod_deal_ids}
        /\ results' = [results EXCEPT !.associations_created =
                          @ + Cardinality({d \in mapped : create_association(outcome[d])})]
    /\ idx' = IF idx + 1 = Len(source) THEN 0 ELSE idx + 1
    /\ pc' = IF idx + 1 = Len(source) THEN "report" ELSE "associations"
    /\ UNCHANGED <<prog, libVars, runs, runVars, httpVars, source, prod_records, sandbox, snapshot, created, updated, failed,
                   stats, mapping, contact_mapping, company_mapping, assoc,
                   sandbox_deals, related_deals, reportVars>>

\* save_selective_sync_report: the summary written to the report file.
save_selective_sync_report ==
    /\ prog = "selective"
    /\ pc = "report"
    /\ written' = written + 1
    /\ report' = [kind |-> "selective_sync",
                  summary |-> [contacts_synced |-> results.contacts_synced,
                               deals_synced |-> results.deals_synced,
                               companies_synced |-> results.companies_synced]]
    /\ pc' = "done"
    /\ UNCHANGED <<prog, libVars, runs, runVars, reqs, httpVars, migVars, assocVars, selVars>>

----------------------------------------------------------------------------
(* migrate.py: run_migration *)

Flags == {"dry_run", "skip_properties", "skip_deals", "skip_tickets",
          "skip_custom_objects", "contacts_only", "deals_only", "tickets_only",
          "custom_objects_only"}

NoArgs == [f \in Flags |-> FALSE]

\* The calls of run_migration in program order.
StepOrder == <<"company_properties", "contacts", "associations", "deal_properties",
               "deal_pipelines", "deals", "deal_associations", "ticket_properties",
               "ticket_pipelines", "tickets", "custom_objects", "verification">>

\* The if that guards each call.
step_selected(step, a) ==
    CASE step = "company_properties" ->
            ~a.skip_properties /\ ~a.tickets_only /\ ~a.custom_objects_only
      [] step = "contacts" ->
            ~a.deals_only /\ ~a.tickets_only /\ ~a.custom_objects_only
      [] step = "associations" ->
            ~a.contacts_only /\ ~a.deals_only /\ ~a.tickets_only /\ ~a.custom_objects_only
      [] step \in {"deal_properties", "deal_pipelines", "deals", "deal_associations"} ->
            ~a.skip_deals /\ ~a.contacts_only /\ ~a.tickets_only /\ ~a.custom_objects_only
      [] step \in {"ticket_properties", "ticket_pipelines", "tickets"} ->
            \/ ~a.skip_tickets /\ ~a.contacts_only /\ ~a.deals_only
                 /\ ~a.custom_objects_only
            \/ a.tickets_only
      [] step = "custom_objects" ->
            \/ ~a.skip_custom_objects /\ ~a.contacts_only /\ ~a.deals_only
                 /\ ~a.tickets_only
            \/ a.custom_objects_only
      [] OTHER -> TRUE

\* The call raises: migrate_deals() takes no parameter and run_migration
\* calls it with migration_config['contact_limit'], a TypeError.
call_raises(step) == step = "deals"

\* Each call sits in the else branch of "if args.dry_run" (verification:
\* "if not args.dry_run").
step_called_verifying_always(step, a) ==
    step_selected(step, a) /\ (~a.dry_run \/ step = "verification")
step_called(step, a) == step_selected(step, a) /\ ~a.dry_run

\* run_migration up to the try block.
run_migration_start ==
    /\ prog = "run"
    /\ pc = "start"
    /\ IF is_secure
       THEN pc' = "steps" /\ run_result' = run_result
       ELSE pc' = "done" /\ run_result' = "failed"
    /\ UNCHANGED <<prog, libVars, runs, reqs, httpVars, migVars, assocVars, selVars, reportVars, args,
                   is_secure, steps>>

\* The next guarded call of the try block; an exception leaves the block
\* through "except Exception", which returns False.
run_migration_step ==
    /\ prog = "run"
    /\ pc = "steps"
    /\ idx < Len(StepOrder)
    /\ LET step == StepOrder[idx + 1]
           called == step_called(step, args)
       IN
        IF called /\ call_raises(step)
        THEN /\ run_result' = "failed"
             /\ pc' = "done"
             /\ UNCHANGED <<steps, idx>>
        ELSE /\ steps' = IF called THEN Append(steps, step) ELSE steps
             /\ idx' = idx + 1
             /\ pc' = IF idx + 1 = Len(StepOrder) THEN "summary" ELSE "steps"
             /\ run_result' = run_result
    /\ UNCHANGED <<prog, libVars, runs, reqs, httpVars, source, prod_records, sandbox, snapshot, created, updated,
                   failed, stats, mapping, assocVars, selVars, reportVars, args, is_secure>>

\* print_summary, return True
run_migration_summary ==
    /\ prog = "run"
    /\ pc = "summary"
    /\ run_result' = "success"
    /\ pc' = "done"
    /\ UNCHANGED <<prog, libVars, runs, reqs, httpVars, migVars, assocVars, selVars, reportVars, args,
                   is_secure, steps>>

----------------------------------------------------------------------------
(* migrations/deal_pipeline_migrator.py and core/rollback_manager.py *)

\* A report file: its directory, the words of its name before the
\* timestamp, and whether its JSON carries a 'migration_date'.
ReportFile(dir, stem, dated) == [dir |-> dir, stem |-> stem, dated |-> dated]

\* generate_migration_report of DealMigrator and of TicketMigrator
deal_report_file == ReportFile("reports", <<"deal", "migration">>, TRUE)

ticket_report_file == ReportFile("reports", <<"ticket", "migration">>, FALSE)

\* the report of migrate_deal_pipelines
deal_pipeline_report_file ==
    ReportFile("reports", <<"deal", "pipeline", "migration">>, TRUE)

IsPrefixOf(s, t) == Len(s) <= Len(t) /\ SubSeq(t, 1, Len(s)) = s

\* os.listdir('reports') filtered by startswith: the report a migrator of
\* this run left under reports/ with a name that starts with the words.
reports_starting(stem) ==
    IF "file" \in DOMAIN report /\ report.file.dir = "reports"
       /\ IsPrefixOf(stem, report.file.stem)
    THEN <<report>> ELSE <<>>

DefaultLabel == "Sales Pipeline"

PipelineLabels == Keys \cup {DefaultLabel}

\* Production pipeline listings: pipeline i has id i and label source[i];
\* labels are distinct.
PipelineSources ==
    {f \in UNION {[1 .. n -> PipelineLabels] : n \in 0 .. MaxRecords} :
        \A j, k \in DOMAIN f : j # k => f[j] # f[k]}

Indices(n) == [k \in 1 .. n |-> k]

create_deal_pipeline_request(i) == Request("POST", "pipelines/deals", sandbox_token, i, 0)

\* migrate_deal_pipelines: outcome[i] is the answer to the create request for
\* production pipeline i.  pipeline_mapping is kept in insertion order:
\* the pipelines created, then the pipelines matched by label.
migrate_deal_pipelines(prod_ok, sandbox_ok, outcome) ==
    /\ prog = "pipelines"
    /\ pc = "start"
    /\ LET prod_pipelines == IF prod_ok THEN source ELSE <<>>
           sandbox_pipelines == IF sandbox_ok THEN sandbox ELSE {}
           considered == SelectSeq(Indices(Len(prod_pipelines)),
                                   LAMBDA i : prod_pipelines[i] # DefaultLabel)
           pipelines_to_update ==
               SelectSeq(considered, LAMBDA i : Holds(sandbox_pipelines, prod_pipelines[i]))
           pipelines_to_create ==
               SelectSeq(considered, LAMBDA i : ~Holds(sandbox_pipelines, prod_pipelines[i]))
           succeeded == SelectSeq(pipelines_to_create, LAMBDA i : outcome[i] # "error")
           pipeline_mapping ==
               [k \in 1 .. Len(succeeded) |->
                   [prod_id |-> succeeded[k],
                    sandbox_id |-> result_get_id(outcome[succeeded[k]], succeeded[k])]]
               \o [k \in 1 .. Len(pipelines_to_update) |->
                   [prod_id |-> pipelines_to_update[k],
                    sandbox_id |-> find_existing(prod_pipelines[pipelines_to_update[k]],
                                                 sandbox_pipelines)]]
       IN
        /\ reqs' = reqs
             \cup {Request("GET", "pipelines/deals", prod_token, 0, 0)}
             \cup (IF prod_pipelines # <<>>
                   THEN {Request("GET", "pipelines/deals", sandbox_token, 0, 0)}
                        \cup {create_deal_pipeline_request(i) :
                                 i \in Range(pipelines_to_create)}
                   ELSE {})
        /\ snapshot' = IF prod_pipelines # <<>> THEN sandbox_pipelines ELSE snapshot
        /\ sandbox' = sandbox
             \cup {[key |-> prod_pipelines[i], id |-> NewId(i)] :
                      i \in {j \in Range(pipelines_to_create) : outcome[j] = "created"}}
        /\ mapping' = pipeline_mapping
        /\ IF prod_pipelines = <<>> THEN pc' = "aborted" /\ UNCHANGED reportVars
           ELSE IF considered = <<>> THEN pc' = "done" /\ UNCHANGED reportVars
           ELSE /\ pc' = "done"
                /\ written' = written + 1
                /\ report' =
                     [kind |-> "pipelines",
                      file |-> deal_pipeline_report_file,
                      summary |->
                        [pipelines_created |-> Len(succeeded),
                         pipelines_failed |-> Len(pipelines_to_create) - Len(succeeded),
                         pipelines_updated |-> Len(pipelines_to_update),
                         total_processed |-> Len(considered)],
                      pipeline_mapping |-> pipeline_mapping,
                      \* [p['label'] for p in pipelines_to_create[:created]]
                      created_pipelines |->
                        [k \in 1 .. Len(succeeded) |->
                            prod_pipelines[pipelines_to_create[k]]]]
    /\ UNCHANGED <<prog, libVars, runs, runVars, httpVars, source, prod_records, idx, created, updated, failed, stats,
                   assocVars, selVars>>

\* What migrate_deal_pipelines returned: True when nothing had to be
\* created or checked, else whether no create request failed.
migrate_deal_pipelines_returned ==
    IF report.kind = "pipelines" THEN report.summary.pipelines_failed = 0 ELSE TRUE

\* DealMigrator.load_pipeline_mapping and the guard that opens
\* DealMigrator.migrate_deals, run after the first pipeline migration.
load_pipeline_mapping ==
    /\ prog = "pipelines"
    /\ pc = "done"
    /\ runs = <<>>
    /\ LET report_files == reports_starting(<<"deal", "pipeline", "migration">>) IN
        pc' = IF report_files = <<>> THEN "deals_aborted" ELSE "deals_started"
    /\ UNCHANGED <<prog, libVars, runs, runVars, reqs, httpVars, migVars, assocVars, selVars, reportVars>>

delete_pipeline_request(pipeline_id) ==
    Request("DELETE", "pipelines/deals/{id}", sandbox_token, pipeline_id, 0)

\* RollbackManager.delete_pipelines: the first DELETE is sent, then
\* time.sleep raises NameError because the module never imports time.
delete_pipelines(pipeline_ids, delete_ok, returned) ==
    IF pipeline_ids = <<>>
    THEN /\ pc' = returned
         /\ UNCHANGED <<reqs, sandbox>>
    ELSE /\ reqs' = reqs \cup {delete_pipeline_request(Head(pipeline_ids))}
         /\ sandbox' = IF delete_ok
                       THEN {s \in sandbox : s.id # Head(pipeline_ids)} ELSE sandbox
         /\ pc' = "crashed"

\* list(pipeline_mapping.values())
mapping_values(pipeline_mapping) ==
    [k \in 1 .. Len(pipeline_mapping) |-> pipeline_mapping[k].sandbox_id]

\* rollback_specific_migration on the pipeline report: _rollback_pipelines
rollback_pipelines(delete_ok) ==
    /\ prog = "pipelines"
    /\ pc = "done"
    /\ report.kind = "pipelines"
    /\ delete_pipelines(mapping_values(report.pipeline_mapping), delete_ok, "rolled_back")
    /\ UNCHANGED <<prog, libVars, runs, runVars, httpVars, source, prod_records, snapshot, idx, created, updated,
                   failed, stats, mapping, assocVars, selVars, reportVars>>

\* full_reset: no record or property report exists here, so only its
\* pipeline loop acts.
full_reset(delete_ok) ==
    /\ prog = "pipelines"
    /\ pc = "done"
    /\ report.kind = "pipelines"
    /\ delete_pipelines(mapping_values(report.pipeline_mapping), delete_ok, "reset")
    /\ UNCHANGED <<prog, libVars, runs, runVars, httpVars, source, prod_records, snapshot, idx, created, updated,
                   failed, stats, mapping, assocVars, selVars, reportVars>>

----------------------------------------------------------------------------
(* Report files and core/rollback_manager.py: get_migration_reports *)

\* The glob patterns of get_migration_reports, all under reports/.
Patterns == {<<"migration", "report">>, <<"deal", "migration">>,
             <<"deal", "pipeline", "migration">>, <<"deal", "property", "migration">>,
             <<"deal", "association", "migration">>,
             <<"enterprise", "association", "migration">>, <<"selective", "sync">>}

\* word sequence w occurs in the file name ("w in file_path")
Occurs(w, stem) ==
    \E k \in 0 .. Len(stem) - Len(w) : SubSeq(stem, k + 1, k + Len(w)) = w

\* glob match, then the cutoff test on report.get('migration_date', '1970-01-01')
found_by_rollback(file) ==
    /\ file.dir = "reports"
    /\ \E pat \in Patterns : IsPrefixOf(pat, file.stem)
    /\ file.dated

identify_report_type(file) ==
    IF Occurs(<<"contact">>, file.stem) \/ Occurs(<<"migration", "report">>, file.stem)
    THEN "contacts"
    ELSE IF Occurs(<<"deal", "migration">>, file.stem) THEN "deals"
    ELSE IF Occurs(<<"deal", "pipeline">>, file.stem) THEN "pipelines"
    ELSE IF Occurs(<<"deal", "property">>, file.stem) THEN "deal_properties"
    ELSE IF Occurs(<<"deal", "association">>, file.stem) THEN "deal_associations"
    ELSE IF Occurs(<<"enterprise", "association">>, file.stem)
    THEN "contact_associations"
    ELSE IF Occurs(<<"selective", "sync">>, file.stem) THEN "selective_sync"
    ELSE "unknown"

\* migrate_deals(): the report written once DealMigrator.migrate_deals
\* returned True.
generate_deal_migration_report ==
    /\ prog = "deals"
    /\ pc = "done"
    /\ written' = written + 1
    /\ report' = [kind |-> "deals",
                  file |-> deal_report_file,
                  summary |-> [deals_created |-> Len(created),
                               deals_updated |-> Len(updated),
                               deals_failed |-> Len(failed),
                               total_processed |->
                                   Len(created) + Len(updated) + Len(failed)],
                  created_deals |-> created,
                  updated_deals |-> updated]
    /\ pc' = "reported"
    /\ UNCHANGED <<prog, libVars, runs, runVars, reqs, httpVars, migVars, assocVars, selVars>>

\* TicketMigrator.generate_migration_report, called at the end of
\* TicketMigrator.migrate_tickets.
generate_ticket_migration_report ==
    /\ prog = "tickets"
    /\ pc = "done"
    /\ written' = written + 1
    /\ report' = [kind |-> "tickets",
                  file |-> ticket_report_file,
                  summary |-> [tickets_created |-> Len(created),
                               tickets_updated |-> Len(updated),
                               tickets_failed |-> Len(failed),
                               total_processed |-> Len(created) + Len(updated)],
                  ticket_mapping |-> mapping]
    /\ pc' = "returned"
    /\ UNCHANGED <<prog, libVars, runs, runVars, reqs, httpVars, migVars, assocVars, selVars>>

\* migrate_tickets(): TicketMigrator.migrate_tickets returned True, and the
\* function calls generate_migration_report once more for its summary.
migrate_tickets_main ==
    /\ prog = "tickets"
    /\ pc = "returned"
    /\ written' = written + 1
    /\ report' = report
    /\ pc' = "reported"
    /\ UNCHANGED <<prog, libVars, runs, runVars, reqs, httpVars, migVars, assocVars, selVars>>

\* The dict built by the loops over the report's entries: a later entry
\* replaces an earlier one with the same prod_id.
mapping_from(entries) ==
    [p \in {entries[k].prod_id : k \in 1 .. Len(entries)} |->
        LET last == CHOOSE k \in 1 .. Len(entries) :
                        /\ entries[k].prod_id = p
                        /\ \A j \in k + 1 .. Len(entries) : entries[j].prod_id # p
        IN  entries[last].sandbox_id]

\* report.get(key, [])
report_get(reports, key) ==
    IF reports # <<>> /\ key \in DOMAIN reports[1] THEN reports[1][key] ELSE <<>>

\* DealAssociationMigrator.load_mappings run after the contact migrator or
\* the deal migrator of this repository, on the reports that run left.
load_mappings_after_run ==
    /\ \/ prog = "contacts" /\ pc = "done"
       \/ prog = "deals" /\ pc = "reported"
    /\ LET deal_reports == reports_starting(<<"deal", "migration">>)
           contact_reports == reports_starting(<<"migration", "report">>)
           company_reports == reports_starting(<<"enterprise", "association", "migration">>)
           mappings_loaded ==
               Len(deal_reports) + Len(contact_reports) + Len(company_reports)
       IN
        /\ mapping' = mapping_from(report_get(deal_reports, "created_deals")
                                   \o report_get(deal_reports, "updated_deals"))
        /\ contact_mapping' = mapping_from(report_get(contact_reports, "created_contacts")
                                           \o report_get(contact_reports, "updated_contacts"))
        /\ company_mapping' = mapping_from(report_get(company_reports, "created_companies")
                                           \o report_get(company_reports, "updated_companies"))
        /\ pc' = IF mappings_loaded = 0 THEN "no_mappings" ELSE "mappings_loaded"
    /\ UNCHANGED <<prog, libVars, runs, runVars, reqs, httpVars, source, prod_records, sandbox, snapshot,
                   idx, created, updated, failed, stats, assoc, seen, selVars, reportVars>>

delete_object_request(object_type, obj_id) ==
    Request("DELETE", object_type \o "/{id}", sandbox_token, obj_id, 0)

\* RollbackManager.delete_objects: the first DELETE is sent, then
\* time.sleep raises NameError because the module never imports time.
delete_objects(object_type, object_ids, delete_ok) ==
    IF object_ids = <<>>
    THEN /\ pc' = "rolled_back"
         /\ UNCHANGED <<reqs, sandbox>>
    ELSE /\ reqs' = reqs \cup {delete_object_request(object_type, Head(object_ids))}
         /\ sandbox' = IF delete_ok
                       THEN {s \in sandbox : s.id # Head(object_ids)} ELSE sandbox
         /\ pc' = "rollback_crashed"

\* [deal.get('sandbox_id') for deal in created_deals if deal.get('sandbox_id')]
truthy_sandbox_ids(entries) ==
    LET kept == SelectSeq(entries, LAMBDA e : e.sandbox_id # None)
    IN  [k \in 1 .. Len(kept) |-> kept[k].sandbox_id]

\* rollback_last_migration after a deal or ticket migration: the newest
\* report get_migration_reports returns is rolled back by its type.
rollback_last_migration(delete_ok) ==
    /\ prog \in {"deals", "tickets"}
    /\ pc = "reported"
    /\ IF ~found_by_rollback(report.file)
       THEN /\ pc' = "no_reports"
            /\ UNCHANGED <<reqs, sandbox>>
       ELSE IF identify_report_type(report.file) = "deals"
       THEN delete_objects("deals", truthy_sandbox_ids(report.created_deals), delete_ok)
       ELSE /\ pc' = "rolled_back"
            /\ UNCHANGED <<reqs, sandbox>>
    /\ UNCHANGED <<prog, libVars, runs, runVars, httpVars, source, prod_records, snapshot, idx, created, updated,
                   failed, stats, mapping, assocVars, selVars, reportVars>>

----------------------------------------------------------------------------
(* property_sync.py, and a second run of a sync script *)

MaxRuns == 2

\* Production contact properties: property i is source[i]; names are distinct.
PropertySources ==
    {f \in UNION {[1 .. n -> [name : Keys, hubspotDefined : BOOLEAN]] : n \in 0 .. MaxRecords} :
        \A j, k \in DOMAIN f : j # k => f[j].name # f[k].name}

ZeroCounts == [created |-> 0, skipped |-> 0, failed |-> 0, total |-> 0]

create_property_request(i) == Request("POST", "properties/contacts", sandbox_token, i, 0)

\* create_property: the message it returns.  make_hubspot_request answers
\* (True, ...) for a 409, so the first branch after the POST takes it and
\* the status_code == 409 branch is never reached.
create_property(property_data, outcome) ==
    IF property_data.hubspotDefined THEN "System property - skipped"
    ELSE IF outcome # "error" THEN "Created successfully"
    ELSE "Failed"

\* sync_properties: outcome[i] answers the create request for production
\* property i.  An empty listing is read as a failed fetch.
sync_properties(prod_ok, sandbox_ok, outcome) ==
    /\ prog = "propsync"
    /\ pc = "start"
    /\ LET prod_properties == IF prod_ok THEN source ELSE <<>>
           sandbox_properties == IF sandbox_ok THEN sandbox ELSE {}
           fetched == prod_properties # <<>> /\ sandbox_properties # {}
           missing_properties ==
               SelectSeq(Indices(Len(prod_properties)),
                         LAMBDA i : ~Holds(sandbox_properties, prod_properties[i].name))
           message(i) == create_property(prod_properties[i], outcome[i])
           posted == IF fetched
                     THEN {i \in Range(missing_properties) :
                              ~prod_properties[i].hubspotDefined}
                     ELSE {}
           counted(m) == Len(SelectSeq(missing_properties, LAMBDA i : message(i) = m))
           counts ==
               IF ~fetched THEN ZeroCounts
               ELSE IF missing_properties = <<>>
               THEN [created |-> 0, skipped |-> Len(prod_properties), failed |-> 0,
                     total |-> Len(prod_properties)]
               ELSE [created |-> counted("Created successfully"),
                     skipped |-> counted("System property - skipped"),
                     failed |-> counted("Failed"),
                     total |-> Len(missing_properties)]
       IN
        /\ reqs' = reqs
             \cup {Request("GET", "properties/contacts", prod_token, 0, 0)}
             \cup (IF prod_properties # <<>>
                   THEN {Request("GET", "properties/contacts", sandbox_token, 0, 0)}
                   ELSE {})
             \cup {create_property_request(i) : i \in posted}
        /\ sandbox' = sandbox
             \cup {[key |-> prod_properties[i].name, id |-> None] :
                      i \in {j \in posted : outcome[j] = "created"}}
        \* the counts are printed; the script writes no file
        /\ written' = written
        /\ report' = [kind |-> "property_sync", summary |-> counts]
        /\ pc' = "done"
    /\ UNCHANGED <<prog, libVars, runs, runVars, httpVars, source, prod_records, snapshot, idx, created, updated,
                   failed, stats, mapping, assocVars, selVars>>

\* The four counts a finished run of a sync script printed or reported.
run_counts ==
    IF report.kind = "property_sync" THEN report.summary
    ELSE IF report.kind = "pipelines"
    THEN [created |-> report.summary.pipelines_created,
          skipped |-> report.summary.pipelines_updated,
          failed |-> report.summary.pipelines_failed,
          total |-> report.summary.total_processed]
    ELSE ZeroCounts

\* The script ends (main of property_sync.py, __main__ of
\* deal_pipeline_migrator.py) and is started again on the same two portals.
script_main ==
    /\ prog \in {"propsync", "pipelines"}
    /\ pc \in {"done", "aborted"}
    /\ Len(runs) < MaxRuns
    /\ runs' = Append(runs, run_counts)
    /\ IF Len(runs) + 1 < MaxRuns
       THEN /\ pc' = "start"
            /\ report' = NoReport
            /\ written' = 0
            /\ mapping' = <<>>
            /\ snapshot' = {}
       ELSE /\ pc' = "exited"
            /\ UNCHANGED <<reportVars, mapping, snapshot>>
    /\ UNCHANGED <<prog, libVars, reqs, runVars, httpVars, source, prod_records, sandbox, idx, created, updated,
                   failed, stats, assocVars, selVars>>

----------------------------------------------------------------------------
(* core/field_filters.py *)

\* A property name is the sequence of the words its underscores separate:
\* "hs_object_id" is <<"hs", "object", "id">>.  A prefix that ends with an
\* underscore is the sequence of the words before that underscore.
MaxWords == 3

NameWords ==
    {"hs", "object", "id", "createdate", "hubspot", "owner", "persona", "external", "Email"}

\* str.lower() on the words above
LowerWord(w) == IF w = "Email" THEN "email" ELSE w

lower(prop_name) == [k \in 1 .. Len(prop_name) |-> LowerWord(prop_name[k])]

\* prop_name.startswith(prefix) for a prefix that ends with an underscore
startswith(prop_name, prefix) ==
    Len(prop_name) > Len(prefix) /\ SubSeq(prop_name, 1, Len(prefix)) = prefix

\* prop_name.endswith('_id')
endswith_id(prop_name) == Len(prop_name) >= 2 /\ prop_name[Len(prop_name)] = "id"

HubSpotFieldFilter_SYSTEM_PREFIXES ==
    {<<"hs", "additional">>, <<"hs", "all">>, <<"hs", "analytics">>,
     <<"hs", "associated">>, <<"hs", "avatar">>, <<"hs", "buying">>,
     <<"hs", "calculated">>, <<"hs", "clicked">>, <<"hs", "contact">>,
     <<"hs", "content">>, <<"hs", "conversations">>, <<"hs", "count">>,
     <<"hs", "country">>, <<"hs", "created">>, <<"hs", "createdate">>,
     <<"hs", "cross">>, <<"hs", "currently">>, <<"hs", "customer">>, <<"hs", "data">>,
     <<"hs", "document">>, <<"hs", "email">>, <<"hs", "emailconfirmationstatus">>,
     <<"hs", "employment">>, <<"hs", "enriched">>, <<"hs", "facebook">>,
     <<"hs", "facebookid">>, <<"hs", "feedback">>, <<"hs", "first">>, <<"hs", "full">>,
     <<"hs", "google">>, <<"hs", "googleplusid">>, <<"hs", "gps">>, <<"hs", "has">>,
     <<"hs", "inferred">>, <<"hs", "intent">>, <<"hs", "ip">>, <<"hs", "is">>,
     <<"hs", "job">>, <<"hs", "journey">>, <<"hs", "language">>, <<"hs", "last">>,
     <<"hs", "lastmodifieddate">>, <<"hs", "latest">>, <<"hs", "latitude">>,
     <<"hs", "lead">>, <<"hs", "legal">>, <<"hs", "linkedin">>, <<"hs", "linkedinid">>,
     <<"hs", "live">>, <<"hs", "longitude">>, <<"hs", "marketable">>,
     <<"hs", "membership">>, <<"hs", "merged">>, <<"hs", "messaging">>,
     <<"hs", "mobile">>, <<"hs", "notes">>, <<"hs", "object">>, <<"hs", "owning">>,
     <<"hs", "persona">>, <<"hs", "pinned">>, <<"hs", "pipeline">>,
     <<"hs", "predictivecontactscore">>, <<"hs", "predictivecontactscorebucket">>,
     <<"hs", "predictivescoringtier">>, <<"hs", "prospecting">>,
     <<"hs", "quarantined">>, <<"hs", "read">>, <<"hs", "recent">>,
     <<"hs", "registered">>, <<"hs", "registration">>, <<"hs", "returning">>,
     <<"hs", "role">>, <<"hs", "sa">>, <<"hs", "sales">>, <<"hs", "searchable">>,
     <<"hs", "seniority">>, <<"hs", "sequences">>, <<"hs", "shared">>,
     <<"hs", "social">>, <<"hs", "source">>, <<"hs", "state">>, <<"hs", "sub">>,
     <<"hs", "testpurge">>, <<"hs", "testrollback">>, <<"hs", "time">>,
     <<"hs", "timezone">>, <<"hs", "twitterid">>, <<"hs", "unique">>,
     <<"hs", "updated">>, <<"hs", "user">>, <<"hs", "v2">>, <<"hs", "was">>,
     <<"hs", "whatsapp">>}

HubSpotFieldFilter_READONLY_EXACT_FIELDS ==
    {<<"createdate">>, <<"lastmodifieddate">>, <<"hs", "object", "id">>,
     <<"first", "deal", "created", "date">>, <<"recent", "conversion", "date">>,
     <<"first", "conversion", "date">>, <<"recent", "conversion", "event", "name">>,
     <<"first", "conversion", "event", "name">>, <<"num", "conversion", "events">>,
     <<"num", "unique", "conversion", "events">>, <<"days", "to", "close">>}

HubSpotFieldFilter_PRODUCTION_IDENTIFIERS ==
    {<<"associatedcompanyid">>, <<"hubspot", "owner", "id">>,
     <<"hubspot", "team", "id">>, <<"hubspot", "owner", "assigneddate">>,
     <<"hs", "all", "owner", "ids">>, <<"hs", "all", "team", "ids">>,
     <<"hs", "created", "by", "user", "id">>, <<"hs", "updated", "by", "user", "id">>,
     <<"hs", "object", "source", "user", "id">>,
     <<"hs", "contact", "creation", "legal", "basis", "source", "instance", "id">>,
     <<"hs", "facebook", "click", "id">>, <<"hs", "google", "click", "id">>,
     <<"hs", "first", "closed", "order", "id">>,
     <<"hs", "first", "engagement", "object", "id">>,
     <<"hs", "marketable", "reason", "id">>, <<"hs", "object", "source", "id">>,
     <<"hs", "source", "object", "id">>, <<"hs", "source", "portal", "id">>,
     <<"hs", "pinned", "engagement", "id">>,
     <<"unific", "last", "draft", "order", "id">>,
     <<"unific", "shopping", "cart", "customer", "id">>, <<"unific", "sync", "id">>}

HubSpotFieldFilter_ANALYTICS_FIELDS ==
    {<<"ip", "city">>, <<"ip", "country">>, <<"ip", "country", "code">>,
     <<"ip", "state">>, <<"ip", "state", "code">>, <<"ip", "zipcode">>,
     <<"ip", "latlon">>}

OTHER_READONLY_PREFIXES ==
    {<<"num">>, <<"first">>, <<"recent">>, <<"last">>, <<"total">>}

DealFieldFilter_SYSTEM_PREFIXES ==
    {<<"hs", "additional">>, <<"hs", "all">>, <<"hs", "analytics">>,
     <<"hs", "associated">>, <<"hs", "buying">>, <<"hs", "calculated">>,
     <<"hs", "clicked">>, <<"hs", "closed">>, <<"hs", "createdate">>, <<"hs", "cross">>,
     <<"hs", "currently">>, <<"hs", "customer">>, <<"hs", "data">>, <<"hs", "deal">>,
     <<"hs", "document">>, <<"hs", "email">>, <<"hs", "first">>, <<"hs", "forecast">>,
     <<"hs", "full">>, <<"hs", "has">>, <<"hs", "inferred">>, <<"hs", "is">>,
     <<"hs", "last">>, <<"hs", "lastmodifieddate">>, <<"hs", "latest">>,
     <<"hs", "lead">>, <<"hs", "likelihood">>, <<"hs", "merged">>, <<"hs", "next">>,
     <<"hs", "notes">>, <<"hs", "object">>, <<"hs", "owning">>, <<"hs", "predictive">>,
     <<"hs", "projected">>, <<"hs", "read">>, <<"hs", "recent">>, <<"hs", "sales">>,
     <<"hs", "searchable">>, <<"hs", "shared">>, <<"hs", "source">>, <<"hs", "time">>,
     <<"hs", "timezone">>, <<"hs", "unique">>, <<"hs", "updated">>, <<"hs", "user">>,
     <<"hs", "was">>}

DealFieldFilter_READONLY_EXACT_FIELDS ==
    {<<"closed", "lost", "count">>, <<"closed", "won", "count">>, <<"createdate">>,
     <<"days", "to", "close">>, <<"deal", "id">>, <<"dealid">>,
     <<"first", "deal", "created", "date">>, <<"hs", "deal", "id">>,
     <<"hs", "object", "id">>, <<"lastmodifieddate">>, <<"num", "contacted", "notes">>,
     <<"num", "notes">>, <<"recent", "deal", "close", "date">>}

DealFieldFilter_PRODUCTION_IDENTIFIERS ==
    {<<"associatedcompanyids">>, <<"associatedvids">>, <<"hs", "all", "owner", "ids">>,
     <<"hs", "all", "team", "ids">>, <<"hs", "created", "by", "user", "id">>,
     <<"hs", "first", "engagement", "object", "id">>,
     <<"hs", "object", "source", "id">>, <<"hs", "object", "source", "user", "id">>,
     <<"hs", "pinned", "engagement", "id">>, <<"hs", "source", "object", "id">>,
     <<"hs", "source", "portal", "id">>, <<"hs", "updated", "by", "user", "id">>,
     <<"hubspot", "owner", "id">>, <<"hubspot", "team", "id">>}

DealFieldFilter_ANALYTICS_FIELDS ==
    {<<"hs", "analytics", "source">>, <<"hs", "analytics", "source", "data", "1">>,
     <<"hs", "analytics", "source", "data", "2">>, <<"ip", "city">>,
     <<"ip", "country">>}

DEAL_READONLY_PREFIXES ==
    {<<"closed">>, <<"count">>, <<"days">>, <<"first">>, <<"hs", "closed">>,
     <<"hs", "days">>, <<"last">>, <<"num">>, <<"recent">>, <<"total">>}

core_fields ==
    {<<"email">>, <<"firstname">>, <<"lastname">>, <<"phone">>, <<"mobilephone">>,
     <<"company">>, <<"jobtitle">>, <<"website">>, <<"address">>, <<"city">>,
     <<"state">>, <<"zip">>, <<"country">>, <<"lifecyclestage">>}

deal_core_fields ==
    {<<"dealname">>, <<"amount">>, <<"closedate">>, <<"dealtype">>, <<"dealstage">>,
     <<"pipeline">>, <<"description">>}

deal_name_core_fields ==
    {<<"dealname">>, <<"amount">>, <<"closedate">>, <<"dealtype">>, <<"pipeline">>,
     <<"description">>}

\* The checks the four writability functions share, after the core fields
\* and the flags.
name_refused(prop_name, exact, identifiers, analytics, system_prefixes, other_prefixes) ==
    \/ prop_name \in exact
    \/ prop_name \in identifiers
    \/ prop_name \in analytics
    \/ \E prefix \in system_prefixes : startswith(prop_name, prefix)
    \/ \E prefix \in other_prefixes : startswith(prop_name, prefix)

contact_name_refused(prop_name) ==
    name_refused(prop_name, HubSpotFieldFilter_READONLY_EXACT_FIELDS,
                 HubSpotFieldFilter_PRODUCTION_IDENTIFIERS, HubSpotFieldFilter_ANALYTICS_FIELDS,
                 HubSpotFieldFilter_SYSTEM_PREFIXES, OTHER_READONLY_PREFIXES)

deal_name_refused(prop_name) ==
    name_refused(prop_name, DealFieldFilter_READONLY_EXACT_FIELDS,
                 DealFieldFilter_PRODUCTION_IDENTIFIERS, DealFieldFilter_ANALYTICS_FIELDS,
                 DealFieldFilter_SYSTEM_PREFIXES, DEAL_READONLY_PREFIXES)

flagged(prop) == prop.hubspotDefined \/ prop.readOnlyValue \/ prop.calculated

is_writable_property_flags_first(prop) ==
    LET prop_name == lower(prop.name) IN
    IF flagged(prop) THEN FALSE
    ELSE IF prop_name \in core_fields THEN TRUE
    ELSE IF contact_name_refused(prop_name) THEN FALSE
    ELSE ~(endswith_id(prop_name)
           /\ prop_name \notin {<<"email">>, <<"phone">>, <<"mobile">>})

\* HubSpotFieldFilter.is_writable_property
is_writable_property(prop) ==
    LET prop_name == lower(prop.name) IN
    IF prop_name \in core_fields THEN TRUE
    ELSE IF flagged(prop) THEN FALSE
    ELSE IF contact_name_refused(prop_name) THEN FALSE
    ELSE ~(endswith_id(prop_name)
           /\ prop_name \notin {<<"email">>, <<"phone">>, <<"mobile">>})

\* HubSpotFieldFilter.is_property_name_writable
is_property_name_writable(prop_name) ==
    LET prop_name_lower == lower(prop_name) IN
    IF contact_name_refused(prop_name_lower) THEN FALSE
    ELSE ~(endswith_id(prop_name_lower)
           /\ prop_name_lower \notin {<<"email">>, <<"phone">>, <<"mobile">>})

\* DealFieldFilter.is_writable_deal_property
is_writable_deal_property(prop) ==
    LET prop_name == lower(prop.name) IN
    IF prop_name \in deal_core_fields THEN TRUE
    ELSE IF flagged(prop) THEN FALSE
    ELSE IF deal_name_refused(prop_name) THEN FALSE
    ELSE ~(endswith_id(prop_name) /\ prop_name \notin deal_core_fields)

\* DealFieldFilter.is_property_name_writable
deal_is_property_name_writable(prop_name) ==
    LET prop_name_lower == lower(prop_name) IN
    IF prop_name_lower \in deal_name_core_fields THEN TRUE
    ELSE IF deal_name_refused(prop_name_lower) THEN FALSE
    ELSE ~endswith_id(prop_name_lower)

\* A property value is None, a str (the sequence of its characters), or an
\* int; field str is what str(value) gives.
MaxLen == 4

Chars == {" ", "n", "N", "o", "e", "u", "l", "x"}

Whitespace == {" "}

PyNone == [type |-> "NoneType", str |-> <<"N", "o", "n", "e">>]

Str(s) == [type |-> "str", str |-> s]

PyInt(digits) == [type |-> "int", str |-> digits]

LowerChar(c) == IF c = "N" THEN "n" ELSE c

str_lower(s) == [k \in 1 .. Len(s) |-> LowerChar(s[k])]

RECURSIVE lstrip(_)
lstrip(s) == IF s # <<>> /\ Head(s) \in Whitespace THEN lstrip(Tail(s)) ELSE s

RECURSIVE rstrip(_)
rstrip(s) ==
    IF s # <<>> /\ s[Len(s)] \in Whitespace THEN rstrip(SubSeq(s, 1, Len(s) - 1)) ELSE s

strip(s) == rstrip(lstrip(s))

clean_property_value_keeping_case(value) ==
    IF value.type = "NoneType" THEN PyNone
    ELSE LET str_value == strip(value.str) IN
         IF str_value = <<>> \/ str_value \in {<<"n", "o", "n", "e">>, <<"n", "u", "l", "l">>, <<>>}
         THEN PyNone
         ELSE Str(str_value)

\* HubSpotFieldFilter.clean_property_value
clean_property_value(value) ==
    IF value.type = "NoneType" THEN PyNone
    ELSE LET str_value == strip(value.str) IN
         IF str_value = <<>>
            \/ str_lower(str_value) \in {<<"n", "o", "n", "e">>, <<"n", "u", "l", "l">>, <<>>}
         THEN PyNone
         ELSE Str(str_value)

\* DealFieldFilter.clean_property_value
deal_clean_property_value(value) ==
    IF value.type = "NoneType" THEN PyNone
    ELSE LET str_value == strip(value.str) IN
         IF str_value = <<>>
            \/ str_lower(str_value) \in {<<"n", "o", "n", "e">>, <<"n", "u", "l", "l">>, <<>>}
         THEN PyNone
         ELSE Str(str_value)

without(filtered, prop_name) == [n \in DOMAIN filtered \ {prop_name} |-> filtered[n]]

filter_contact_properties_keeping_email(contact_properties, is_update) ==
    LET kept == {n \in DOMAIN contact_properties :
                    /\ is_property_name_writable(n)
                    /\ clean_property_value(contact_properties[n]) # PyNone}
    IN [n \in kept |-> clean_property_value(contact_properties[n])]

\* HubSpotFieldFilter.filter_contact_properties
filter_contact_properties(contact_properties, is_update) ==
    LET kept == {n \in DOMAIN contact_properties :
                    /\ is_property_name_writable(n)
                    /\ clean_property_value(contact_properties[n]) # PyNone}
        filtered == [n \in kept |-> clean_property_value(contact_properties[n])]
    IN IF is_update /\ <<"email">> \in DOMAIN filtered
       THEN without(filtered, <<"email">>)
       ELSE filtered

\* DealFieldFilter.clean_deal_properties
clean_deal_properties(deal_props) ==
    LET kept == {n \in DOMAIN deal_props :
                    /\ deal_is_property_name_writable(n)
                    /\ deal_clean_property_value(deal_props[n]) # PyNone}
    IN [n \in kept |-> deal_clean_property_value(deal_props[n])]

\* update_contact_in_sandbox: the bodies of the PATCH requests it sends, none
\* when the filter leaves nothing.
update_contact_payloads(contact_properties) ==
    LET properties == filter_contact_properties(contact_properties, TRUE) IN
    IF DOMAIN properties = {} THEN {} ELSE {properties}

\* Inputs of the calls
WordSeqs(n) == UNION {[1 .. k -> NameWords] : k \in 1 .. n}

PropertyNames ==
    WordSeqs(MaxWords) \cup core_fields \cup deal_core_fields

Flags3 == [hubspotDefined : BOOLEAN, readOnlyValue : BOOLEAN, calculated : BOOLEAN]

with_name(flags, prop_name) ==
    [name |-> prop_name, hubspotDefined |-> flags.hubspotDefined,
     readOnlyValue |-> flags.readOnlyValue, calculated |-> flags.calculated]

PropertyValues ==
    {PyNone, PyInt(<<"0">>)}
        \cup {Str(s) : s \in UNION {[1 .. k -> Chars] : k \in 0 .. MaxLen}}

MapNames == {<<"email">>, <<"firstname">>, <<"dealname">>, <<"hs", "object", "id">>}

MapValues ==
    {PyNone, Str(<<>>), Str(<<" ">>), Str(<<"x">>), Str(<<" ", "x", "@", "x">>),
     Str(<<"N", "o", "n", "e">>)}

PropertyMaps == UNION {[D -> MapValues] : D \in {S \in SUBSET MapNames : Cardinality(S) <= 2}}

\* A library call returns.
returns(fn, result) ==
    /\ prog = "filters"
    /\ pc = "start"
    /\ call.fn = fn
    /\ ret' = [fn |-> fn, value |-> result]
    /\ pc' = "returned"
    /\ UNCHANGED <<prog, call, reqs, runs, runVars, httpVars, migVars, assocVars, selVars, reportVars>>

call_is_writable_property ==
    returns("is_writable_property", is_writable_property(call.arg))

call_is_property_name_writable ==
    returns("is_property_name_writable", is_property_name_writable(call.arg.name))

call_is_writable_deal_property ==
    returns("is_writable_deal_property", is_writable_deal_property(call.arg))

call_deal_is_property_name_writable ==
    returns("deal_is_property_name_writable", deal_is_property_name_writable(call.arg.name))

call_clean_property_value ==
    returns("clean_property_value", clean_property_value(call.arg.value))

call_deal_clean_property_value ==
    returns("deal_clean_property_value", deal_clean_property_value(call.arg.value))

call_filter_contact_properties ==
    returns("filter_contact_properties",
            filter_contact_properties(call.arg.properties, call.arg.is_update))

call_clean_deal_properties ==
    returns("clean_deal_properties", clean_deal_properties(call.arg.properties))

call_update_contact_in_sandbox ==
    returns("update_contact_in_sandbox", update_contact_payloads(call.arg.properties))

----------------------------------------------------------------------------
(* core/selective_sync.py: get_contacts_by_criteria, get_deals_by_criteria *)

\* The production records, newest first as the API sorts them
\* (createdate DESCENDING): id, domain of the email, age in days.
ProdContacts ==
    << [id |-> 1, domain |-> "x", age |-> 1],
       [id |-> 2, domain |-> "y", age |-> 10],
       [id |-> 3, domain |-> "x", age |-> 40] >>

ProdDeals ==
    << [id |-> 1, domain |-> "", age |-> 2],
       [id |-> 2, domain |-> "", age |-> 20],
       [id |-> 3, domain |-> "", age |-> 60] >>

DefaultLimit == 50

\* A request to the production portal and the property its filter tests
\* ("id" for a fetch by id, "all" for the unfiltered listing, "full" for
\* the fetches of _fetch_full_contact_properties).
Listing(method, endpoint, filter) ==
    [method |-> method, endpoint |-> endpoint, token |-> prod_token, filter |-> filter]

\* 'key' in criteria and criteria[key]
given(criteria, key) == key \in DOMAIN criteria /\ criteria[key] # <<>>

\* criteria.get(key, default)
get(criteria, key, default) == IF key \in DOMAIN criteria THEN criteria[key] ELSE default

record_ids(records) == [k \in 1 .. Len(records) |-> records[k].id]

first_n(records, n) == SubSeq(records, 1, IF n < Len(records) THEN n ELSE Len(records))

\* _fetch_contacts_by_ids, _fetch_deals_by_ids: the ids whose GET succeeds,
\* in the order asked.
fetch_by_ids(records, wanted, ok) ==
    SelectSeq(wanted, LAMBDA i : ok /\ i \in Range(record_ids(records)))

\* What a search or listing request answers.
search(matching, limit, ok) ==
    IF ok THEN record_ids(first_n(matching, limit)) ELSE <<>>

\* _fetch_full_contact_properties: one GET of the property list and one GET
\* per contact; the contacts stay the same.
full_contact_requests(selected) ==
    IF selected = <<>> THEN {}
    ELSE {Listing("GET", "properties/contacts", "full"),
          Listing("GET", "contacts/{id}", "full")}

answer(requests, selected) ==
    [requests |-> requests \cup full_contact_requests(selected), selected |-> selected]

get_contacts_by_criteria_date_first(criteria, ok) ==
    IF given(criteria, "contact_ids")
    THEN answer({Listing("GET", "contacts/{id}", "id")},
                fetch_by_ids(ProdContacts, criteria["contact_ids"], ok))
    ELSE IF "days_since_created" \in DOMAIN criteria
    THEN answer({Listing("POST", "contacts/search", "createdate")},
                search(SelectSeq(ProdContacts, LAMBDA c : c.age <= criteria["days_since_created"]),
                       get(criteria, "limit", DefaultLimit), ok))
    ELSE IF given(criteria, "email_domains")
    THEN answer({Listing("POST", "contacts/search", "email")},
                search(SelectSeq(ProdContacts, LAMBDA c : c.domain \in Range(criteria["email_domains"])),
                       get(criteria, "limit", Len(ProdContacts)), ok))
    ELSE answer({Listing("GET", "contacts", "all")},
                search(ProdContacts, get(criteria, "limit", DefaultLimit), ok))

\* SelectiveSyncManager.get_contacts_by_criteria
get_contacts_by_criteria(criteria, ok) ==
    IF given(criteria, "contact_ids")
    THEN answer({Listing("GET", "contacts/{id}", "id")},
                fetch_by_ids(ProdContacts, criteria["contact_ids"], ok))
    ELSE IF given(criteria, "email_domains")
    THEN answer({Listing("POST", "contacts/search", "email")},
                search(SelectSeq(ProdContacts, LAMBDA c : c.domain \in Range(criteria["email_domains"])),
                       get(criteria, "limit", Len(ProdContacts)), ok))
    ELSE IF "days_since_created" \in DOMAIN criteria
    THEN answer({Listing("POST", "contacts/search", "createdate")},
                search(SelectSeq(ProdContacts, LAMBDA c : c.age <= criteria["days_since_created"]),
                       get(criteria, "limit", DefaultLimit), ok))
    ELSE answer({Listing("GET", "contacts", "all")},
                search(ProdContacts, get(criteria, "limit", DefaultLimit), ok))

\* SelectiveSyncManager.get_deals_by_criteria
get_deals_by_criteria(criteria, ok) ==
    IF given(criteria, "deal_ids")
    THEN [requests |-> {Listing("GET", "deals/{id}", "id")},
          selected |-> fetch_by_ids(ProdDeals, criteria["deal_ids"], ok)]
    ELSE IF "days_since_created" \in DOMAIN criteria
    THEN [requests |-> {Listing("POST", "deals/search", "createdate")},
          selected |-> search(SelectSeq(ProdDeals, LAMBDA c : c.age <= criteria["days_since_created"]),
                              get(criteria, "limit", DefaultLimit), ok)]
    ELSE [requests |-> {Listing("GET", "deals", "all")},
          selected |-> search(ProdDeals,
                              get(criteria, "limit", DefaultLimit), ok)]

\* The criteria dicts handed to the two functions.
CriteriaKeys(ids_key) == {ids_key, "email_domains", "days_since_created", "limit"}

CriteriaValue(key, wanted, domains, days, limit) ==
    CASE key = "email_domains" -> domains
      [] key = "days_since_created" -> days
      [] key = "limit" -> limit
      [] OTHER -> wanted

CriteriaDicts(ids_key) ==
    {[key \in K |-> CriteriaValue(key, wanted, domains, days, limit)] :
        K \in SUBSET CriteriaKeys(ids_key),
        wanted \in {<<>>, <<2>>, <<3, 1>>, <<9, 2>>},
        domains \in {<<>>, <<"x">>},
        days \in {5, 30},
        limit \in {1, 2}}

call_get_contacts_by_criteria ==
    returns("get_contacts_by_criteria", get_contacts_by_criteria(call.arg.criteria, call.arg.ok))

call_get_deals_by_criteria ==
    returns("get_deals_by_criteria", get_deals_by_criteria(call.arg.criteria, call.arg.ok))

----------------------------------------------------------------------------
(* selective_sync.py: the companies of one batch *)

\* A company's name, domain and phone are strings: a name is the sequence of
\* its characters, a domain the sequence of its parts (protocol, "www.",
\* host, "/", path, ":", port), a phone the sequence of its characters.
MaxBatch == 2

Digits == {"1", "5", "7"}

TenDigits == <<"5", "5", "5", "5", "5", "5", "5", "5", "5", "5">>

OtherTenDigits == <<"7", "5", "5", "5", "5", "5", "5", "5", "5", "5">>

\* The companies of the batches: each differs from the first in one field, or
\* writes one of its fields in another way.
SourceCompanies ==
    {[name |-> <<"n", "o", "n", "e">>, domain |-> <<"a.com">>, phone |-> TenDigits],
     [name |-> <<"N", "o", "n", "e", " ">>, domain |-> <<"b.com">>, phone |-> OtherTenDigits],
     [name |-> <<"n", "u", "l", "l">>, domain |-> <<"https://", "www.", "A.COM", "/", "path">>,
      phone |-> <<>>],
     [name |-> <<>>, domain |-> <<"a.com", ":", "80">>, phone |-> <<"-">>],
     [name |-> <<"n", "o", "e">>, domain |-> <<"www.">>,
      phone |-> <<"+", "1", "-">> \o TenDigits],
     [name |-> <<>>, domain |-> <<>>, phone |-> <<>>]}

\* What the sandbox answers for one company: which of the searches of
\* _find_existing_company finds it (0: none), and whether the create succeeds.
CompanyAnswers == [hit : 0 .. 2, create_ok : BOOLEAN]

DomainLower(part) == IF part = "A.COM" THEN "a.com" ELSE part

domain_lower(domain) == [k \in 1 .. Len(domain) |-> DomainLower(domain[k])]

\* s.split(sep)[0]
RECURSIVE split_first(_, _)
split_first(s, sep) ==
    IF s = <<>> \/ Head(s) = sep THEN <<>>
    ELSE <<Head(s)>> \o split_first(Tail(s), sep)

normalize_domain(domain) ==
    IF domain = <<>> THEN <<>>
    ELSE LET lowered == strip(domain_lower(domain))
             no_protocol == SelectSeq(lowered, LAMBDA part : part \notin {"http://", "https://"})
             no_www == SelectSeq(no_protocol, LAMBDA part : part # "www.")
         IN  split_first(split_first(no_www, "/"), ":")

normalize_phone(phone) ==
    IF phone = <<>> THEN <<>>
    ELSE LET digits_only == SelectSeq(phone, LAMBDA c : c \in Digits)
         IN  IF Len(digits_only) = 11 /\ Head(digits_only) = "1"
             THEN Tail(digits_only)
             ELSE digits_only

CacheKey(kind, name, domain, phone) ==
    [kind |-> kind, name |-> name, domain |-> domain, phone |-> phone]

generate_company_cache_keys_without_phone(name, domain, phone) ==
    LET normalized_name == IF name # <<>> THEN str_lower(strip(name)) ELSE <<>>
        normalized_domain == IF domain # <<>> THEN normalize_domain(domain) ELSE <<>>
    IN  (IF normalized_name # <<>> \/ normalized_domain # <<>>
         THEN <<CacheKey("name_domain", normalized_name, normalized_domain, <<>>)>> ELSE <<>>)
        \o (IF normalized_domain # <<>>
            THEN <<CacheKey("domain", <<>>, normalized_domain, <<>>)>> ELSE <<>>)
        \o (IF normalized_name # <<>> /\ Len(normalized_name) > 3
            THEN <<CacheKey("name", normalized_name, <<>>, <<>>)>> ELSE <<>>)

generate_company_cache_keys(name, domain, phone) ==
    LET normalized_name == IF name # <<>> THEN str_lower(strip(name)) ELSE <<>>
        normalized_domain == IF domain # <<>> THEN normalize_domain(domain) ELSE <<>>
        normalized_phone == IF phone # <<>> THEN normalize_phone(phone) ELSE <<>>
    IN  (IF normalized_name # <<>> \/ normalized_domain # <<>>
         THEN <<CacheKey("name_domain", normalized_name, normalized_domain, <<>>)>> ELSE <<>>)
        \o (IF normalized_domain # <<>>
            THEN <<CacheKey("domain", <<>>, normalized_domain, <<>>)>> ELSE <<>>)
        \o (IF normalized_name # <<>> /\ Len(normalized_name) > 3
            THEN <<CacheKey("name", normalized_name, <<>>, <<>>)>> ELSE <<>>)
        \o (IF normalized_phone # <<>>
            THEN <<CacheKey("phone", <<>>, <<>>, normalized_phone)>> ELSE <<>>)

\* The searches _find_existing_company sends for a company, in order.
company_searches(domain, name, phone) ==
    (IF domain # <<>> /\ normalize_domain(domain) # <<>> THEN <<"domain">> ELSE <<>>)
    \o (IF name # <<>> /\ Len(strip(name)) > 2 THEN <<"name">> ELSE <<>>)
    \o (IF strip(phone) # <<>> /\ normalize_phone(strip(phone)) # <<>> THEN <<"phone">> ELSE <<>>)
    \o (IF name # <<>> /\ Len(strip(name)) > 10 THEN <<"fuzzy_name">> ELSE <<>>)

\* The id of the company the sandbox finds or creates for the i-th company.
FoundCompanyId(i) == 200 + i

CreatedCompanyId(i) == 100 + i

\* _find_existing_company: the searches sent and the id found, the hit-th
\* search being the one that returns a company.
find_existing_company(i, domain, name, company, hit) ==
    LET searches == company_searches(domain, name, company.phone)
        found == hit \in 1 .. Len(searches)
        sent == IF found THEN SubSeq(searches, 1, hit) ELSE searches
    IN  [id |-> IF found THEN FoundCompanyId(i) ELSE None,
         log |-> [k \in 1 .. Len(sent) |->
                     [op |-> "search", company |-> i, by |-> sent[k],
                      ok |-> found /\ k = Len(sent)]]]

get_safe_company_properties(company) ==
    {field \in {"name", "domain", "phone"} : company[field] # <<>>}

LogEntry(op, i, ok) == [op |-> op, company |-> i, by |-> "", ok |-> ok]

\* _update_company_properties and _verify_and_fix_company_properties send
\* their requests when the company has a property to send.
company_update_log(i, company) ==
    IF get_safe_company_properties(company) = {} THEN <<>>
    ELSE <<LogEntry("update", i, TRUE)>>

company_verify_log(i, company) ==
    IF get_safe_company_properties(company) = {} THEN <<>>
    ELSE <<LogEntry("verify", i, TRUE)>>

\* _create_company_in_sandbox
create_company_in_sandbox(i, company, create_ok) ==
    IF get_safe_company_properties(company) = {}
    THEN [success |-> FALSE, id |-> None, log |-> <<>>]
    ELSE [success |-> create_ok,
          id |-> IF create_ok THEN CreatedCompanyId(i) ELSE None,
          log |-> <<LogEntry("create", i, create_ok)>>]

cache_all(processed_companies, cache_keys, id) ==
    [k \in DOMAIN processed_companies \cup Range(cache_keys) |->
        IF k \in Range(cache_keys) THEN id ELSE processed_companies[k]]

\* _migrate_specific_companies from the i-th company on; st holds
\* migrated_count, processed_companies and the requests sent so far.
RECURSIVE migrate_companies_from(_, _, _, _)
migrate_companies_from(companies, answers, i, st) ==
    IF i > Len(companies) THEN st
    ELSE
      LET company == companies[i]
          domain == strip(company.domain)
          name == strip(company.name)
          phone == strip(company.phone)
          cache_keys == generate_company_cache_keys(name, domain, phone)
          cached == SelectSeq(cache_keys, LAMBDA k : k \in DOMAIN st.processed_companies)
          existing_batch_id ==
              IF cached = <<>> THEN None ELSE st.processed_companies[cached[1]]
          existing == find_existing_company(i, domain, name, company, answers[i].hit)
          creation == create_company_in_sandbox(i, company, answers[i].create_ok)
      IN  IF existing_batch_id # None THEN
              migrate_companies_from(companies, answers, i + 1,
                  [st EXCEPT !.migrated_count = @ + 1,
                             !.log = @ \o <<LogEntry("cached", i, TRUE)>>])
          ELSE IF existing.id # None THEN
              migrate_companies_from(companies, answers, i + 1,
                  [migrated_count |-> st.migrated_count + 1,
                   processed_companies |->
                       cache_all(st.processed_companies, cache_keys, existing.id),
                   log |-> st.log \o existing.log \o company_update_log(i, company)
                                  \o company_verify_log(i, company)])
          ELSE IF creation.success THEN
              migrate_companies_from(companies, answers, i + 1,
                  [migrated_count |-> st.migrated_count + 1,
                   processed_companies |->
                       cache_all(st.processed_companies, cache_keys, creation.id),
                   log |-> st.log \o existing.log \o creation.log
                                  \o company_verify_log(i, company)])
          ELSE
              migrate_companies_from(companies, answers, i + 1,
                  [st EXCEPT !.log = @ \o existing.log \o creation.log])

migrate_specific_companies(companies, answers) ==
    migrate_companies_from(companies, answers, 1,
        [migrated_count |-> 0, processed_companies |-> <<>>, log |-> <<>>])

call_migrate_specific_companies ==
    returns("migrate_specific_companies",
            migrate_specific_companies(call.arg.companies, call.arg.answers))

----------------------------------------------------------------------------
(* The paginated fetches of the object migrators, called on their own *)

MaxPages == 2

\* limit=None, or a positive limit
PageLimits == {None, 1, 2, 3}

PageSeqs == UNION {[1 .. n -> PageAnswers] : n \in 0 .. MaxPages}

call_get_all_deals ==
    returns("get_all_deals", get_all_deals_pages(call.arg.pages, call.arg.limit))

call_get_all_tickets ==
    returns("get_all_tickets",
            get_all_tickets_pages(call.arg.props_ok, call.arg.pages, call.arg.limit))

call_get_custom_objects ==
    returns("get_custom_objects", get_custom_objects_pages(call.arg.pages, call.arg.limit))

----------------------------------------------------------------------------
(* migrate.py: main and handle_selective_sync *)

\* The methods class SelectiveSyncManager defines for its callers.
SelectiveSyncManager_methods ==
    {"get_contacts_by_criteria", "get_deals_by_criteria", "get_related_deals_for_contacts",
     "get_related_contacts_for_deals", "get_related_companies_for_contacts",
     "selective_sync_contacts_with_deals", "selective_sync_deals_with_contacts",
     "save_selective_sync_report"}

\* The method of sync_manager that handle_selective_sync calls.
selective_method(a) ==
    IF a.selective_contacts THEN "selective_sync_contacts_with_related"
    ELSE "selective_sync_deals_with_related"

MainArgs ==
    [selective_contacts : BOOLEAN, selective_deals : BOOLEAN,
     days_since_created : {None, 7, 30}]

\* main: no rollback flag is given, so a selective flag sends the run to
\* handle_selective_sync and anything else to run_migration.
main ==
    /\ prog = "main"
    /\ pc = "start"
    /\ IF call.arg.selective_contacts \/ call.arg.selective_deals
       THEN /\ pc' = "handle_selective_sync"
            /\ steps' = <<"handle_selective_sync">>
       ELSE /\ pc' = "run_migration"
            /\ steps' = <<"run_migration">>
    /\ UNCHANGED <<prog, libVars, runs, reqs, httpVars, migVars, assocVars, selVars, reportVars,
                   args, is_secure, run_result>>

\* handle_selective_sync, and the exit of main: a method the manager does
\* not define raises AttributeError, which main catches to exit with 1.
handle_selective_sync ==
    /\ prog = "main"
    /\ pc = "handle_selective_sync"
    /\ LET method == selective_method(call.arg) IN
       IF method \in SelectiveSyncManager_methods
       THEN /\ steps' = steps \o <<method, "save_selective_sync_report">>
            /\ written' = written + 1
            /\ report' = [kind |-> "selective_sync",
                          summary |-> [contacts_synced |-> 0, deals_synced |-> 0,
                                       companies_synced |-> 0]]
            /\ ret' = [fn |-> "main", value |-> 0]
       ELSE /\ ret' = [fn |-> "main", value |-> 1]
            /\ UNCHANGED <<steps, reportVars>>
    /\ pc' = "exited"
    /\ UNCHANGED <<prog, call, runs, reqs, httpVars, migVars, assocVars, selVars,
                   args, is_secure, run_result>>

----------------------------------------------------------------------------
(* Initial states *)

HttpIdle ==
    /\ max_retries = 3
    /\ backoff_factor = 2
    /\ attempt = 0
    /\ responses = <<>>
    /\ slept = <<>>
    /\ http_ok = FALSE

MigratorIdle ==
    /\ source = <<>>
    /\ prod_records = <<>>
    /\ sandbox = {}
    /\ snapshot = {}
    /\ idx = 0
    /\ created = <<>>
    /\ updated = <<>>
    /\ failed = <<>>
    /\ stats = ZeroStats
    /\ mapping = <<>>

AssociationsIdle ==
    /\ contact_mapping = <<>>
    /\ company_mapping = <<>>
    /\ assoc = <<>>
    /\ seen = <<>>

SelectiveIdle ==
    /\ sandbox_deals = {}
    /\ related_deals = <<>>
    /\ results = ZeroResults

NoCall == [fn |-> "none"]

LibIdle ==
    /\ call = NoCall
    /\ ret = NoCall

RunIdle ==
    /\ args = NoArgs
    /\ is_secure = TRUE
    /\ steps = <<>>
    /\ run_result = "none"

InitHttp ==
    /\ prog = "http"
    /\ pc = "request"
    /\ reqs = {}
    /\ max_retries \in 0 .. MaxRetries
    /\ backoff_factor \in BackoffFactors
    /\ attempt = 0
    /\ responses = <<>>
    /\ slept = <<>>
    /\ http_ok = FALSE
    /\ MigratorIdle
    /\ AssociationsIdle
    /\ SelectiveIdle
    /\ report = NoReport
    /\ written = 0
    /\ RunIdle
    /\ runs = <<>>
    /\ LibIdle

\* An object migrator started on some production listing and some sandbox.
InitMigrator ==
    /\ prog \in {"contacts", "deals", "tickets", "custom"}
    /\ pc = "start"
    /\ reqs = {}
    /\ HttpIdle
    /\ source \in Sources
    /\ prod_records = <<>>
    /\ sandbox \in Portals
    /\ snapshot = {}
    /\ idx = 0
    /\ created = <<>>
    /\ updated = <<>>
    /\ failed = <<>>
    /\ stats = ZeroStats
    /\ mapping = <<>>
    /\ AssociationsIdle
    /\ SelectiveIdle
    /\ report = NoReport
    /\ written = 0
    /\ RunIdle
    /\ runs = <<>>
    /\ LibIdle

\* The deal association migrator started on the mappings of earlier runs.
InitDealAssociations ==
    /\ prog = "dealassoc"
    /\ pc = "start"
    /\ reqs = {}
    /\ HttpIdle
    /\ source = <<>>
    /\ prod_records = <<>>
    /\ sandbox = {}
    /\ snapshot = {}
    /\ idx = 0
    /\ created = <<>>
    /\ updated = <<>>
    /\ failed = <<>>
    /\ stats = ZeroStats
    /\ mapping \in DealMappings
    /\ contact_mapping \in ContactMappings
    /\ company_mapping \in CompanyMappings
    /\ assoc \in Associations(Len(mapping))
    /\ seen = [contacts |-> <<>>, companies |-> <<>>]
    /\ SelectiveIdle
    /\ report = NoReport
    /\ written = 0
    /\ RunIdle
    /\ runs = <<>>
    /\ LibIdle

SelectiveSources == {<<"a", "b">>, <<"a", "">>}

\* A selective sync of two production contacts and one production deal.
InitSelective ==
    /\ prog = "selective"
    /\ pc = "start"
    /\ reqs = {}
    /\ HttpIdle
    /\ source \in SelectiveSources
    /\ prod_records = <<>>
    /\ sandbox \in {{}, PreExisting({"a"})}
    /\ snapshot = {}
    /\ idx = 0
    /\ created = <<>>
    /\ updated = <<>>
    /\ failed = <<>>
    /\ stats = ZeroStats
    /\ mapping = <<>>
    /\ contact_mapping = <<>>
    /\ company_mapping = <<>>
    /\ assoc \in {[contacts |-> <<S>>, companies |-> <<{}>>] : S \in SUBSET ContactIds}
    /\ seen = {}
    /\ sandbox_deals \in {{}, {[key |-> DealName, id |-> ExistingId(DealName)]}}
    /\ related_deals = <<>>
    /\ results = ZeroResults
    /\ report = NoReport
    /\ written = 0
    /\ RunIdle
    /\ runs = <<>>
    /\ LibIdle

\* run_migration called with some flags on some configuration.
InitRun ==
    /\ prog = "run"
    /\ pc = "start"
    /\ reqs = {}
    /\ HttpIdle
    /\ MigratorIdle
    /\ AssociationsIdle
    /\ SelectiveIdle
    /\ report = NoReport
    /\ written = 0
    /\ args \in [Flags -> BOOLEAN]
    /\ is_secure \in BOOLEAN
    /\ steps = <<>>
    /\ run_result = "none"
    /\ runs = <<>>
    /\ LibIdle

\* The deal pipeline migration, then a rollback of its report.
InitPipelines ==
    /\ prog = "pipelines"
    /\ pc = "start"
    /\ reqs = {}
    /\ HttpIdle
    /\ source \in PipelineSources
    /\ prod_records = <<>>
    /\ sandbox \in Portals
    /\ snapshot = {}
    /\ idx = 0
    /\ created = <<>>
    /\ updated = <<>>
    /\ failed = <<>>
    /\ stats = ZeroStats
    /\ mapping = <<>>
    /\ AssociationsIdle
    /\ SelectiveIdle
    /\ report = NoReport
    /\ written = 0
    /\ RunIdle
    /\ runs = <<>>
    /\ LibIdle

\* property_sync.py started on some production and sandbox property lists.
InitPropertySync ==
    /\ prog = "propsync"
    /\ pc = "start"
    /\ reqs = {}
    /\ HttpIdle
    /\ source \in PropertySources
    /\ prod_records = <<>>
    /\ sandbox \in Portals
    /\ snapshot = {}
    /\ idx = 0
    /\ created = <<>>
    /\ updated = <<>>
    /\ failed = <<>>
    /\ stats = ZeroStats
    /\ mapping = <<>>
    /\ AssociationsIdle
    /\ SelectiveIdle
    /\ report = NoReport
    /\ written = 0
    /\ RunIdle
    /\ runs = <<>>
    /\ LibIdle

\* migrate.py started from the command line.
InitMain ==
    /\ prog = "main"
    /\ pc = "start"
    /\ reqs = {}
    /\ HttpIdle
    /\ MigratorIdle
    /\ AssociationsIdle
    /\ SelectiveIdle
    /\ report = NoReport
    /\ written = 0
    /\ RunIdle
    /\ runs = <<>>
    /\ call \in {[fn |-> "main", arg |-> a] : a \in MainArgs}
    /\ ret = NoCall

Init ==
    \/ InitHttp
    \/ InitMigrator
    \/ InitDealAssociations
    \/ InitSelective
    \/ InitRun
    \/ InitPipelines
    \/ InitPropertySync
    \/ InitMain

Next ==
    \/ \E r \in Responses : make_hubspot_request(r)
    \/ \E p, c \in BOOLEAN : migrate_contacts_fetch(p, c)
    \/ \E s, h \in BOOLEAN, o \in Outcomes, v \in VerifyPaths :
          migrate_contacts_step(s, h, o, v)
    \/ \E f, p, s \in BOOLEAN, g \in 0 .. MaxRecords : migrate_deals_fetch(f, p, g, s)
    \/ \E o \in Outcomes : migrate_deals_step(o)
    \/ \E p, s \in BOOLEAN, g \in 0 .. MaxRecords : migrate_tickets_fetch(p, g, s)
    \/ \E o \in Outcomes : migrate_tickets_step(o)
    \/ \E s \in BOOLEAN, g \in 0 .. MaxRecords : migrate_custom_object_type_fetch(g, s)
    \/ \E o \in Outcomes : migrate_custom_object_type_step(o)
    \/ \E f \in BOOLEAN : load_mappings(f)
    \/ \E g, h, b, c \in BOOLEAN : migrate_deal_associations_step(g, h, b, c)
    \/ generate_association_report
    \/ \E c \in BOOLEAN, F \in SUBSET ContactIds : selective_fetch(c, F)
    \/ \E k, h \in BOOLEAN, o \in Outcomes, v \in VerifyPaths :
          migrate_specific_contacts_step(k, h, o, v)
    \/ \E e \in {None, 102, 201, 202}, o \in Outcomes : migrate_specific_deals_step(e, o)
    \/ \E G, F \in SUBSET ContactIds : get_contact_id_mapping(G, F)
    \/ \E g \in BOOLEAN, o \in [{1} -> AssociationOutcomes] :
          create_selective_associations_step(g, o)
    \/ save_selective_sync_report
    \/ run_migration_start
    \/ run_migration_step
    \/ run_migration_summary
    \/ \E p, c \in BOOLEAN, o \in [1 .. MaxRecords -> Outcomes] :
          migrate_deal_pipelines(p, c, o)
    \/ load_pipeline_mapping
    \/ \E d \in BOOLEAN : rollback_pipelines(d)
    \/ \E d \in BOOLEAN : full_reset(d)
    \/ generate_deal_migration_report
    \/ generate_ticket_migration_report
    \/ migrate_tickets_main
    \/ load_mappings_after_run
    \/ \E d \in BOOLEAN : rollback_last_migration(d)
    \/ \E p, c \in BOOLEAN, o \in [1 .. MaxRecords -> Outcomes] : sync_properties(p, c, o)
    \/ script_main
    \/ main
    \/ handle_selective_sync

Spec == Init /\ [][Next]_vars

\* The field filters and the selection functions called on their own, on
\* every input of the bounded sets.
FilterCalls ==
    {[fn |-> f, arg |-> with_name(flags, n)] :
        f \in {"is_writable_property", "is_writable_deal_property"},
        flags \in Flags3, n \in PropertyNames}
    \cup {[fn |-> f, arg |-> [name |-> n]] :
        f \in {"is_property_name_writable", "deal_is_property_name_writable"},
        n \in PropertyNames}
    \cup {[fn |-> f, arg |-> [value |-> v]] :
        f \in {"clean_property_value", "deal_clean_property_value"}, v \in PropertyValues}
    \cup {[fn |-> "filter_contact_properties", arg |-> [properties |-> m, is_update |-> u]] :
        m \in PropertyMaps, u \in BOOLEAN}
    \cup {[fn |-> f, arg |-> [properties |-> m]] :
        f \in {"clean_deal_properties", "update_contact_in_sandbox"}, m \in PropertyMaps}
    \cup {[fn |-> "get_contacts_by_criteria", arg |-> [criteria |-> c, ok |-> k]] :
        c \in CriteriaDicts("contact_ids"), k \in BOOLEAN}
    \cup {[fn |-> "get_deals_by_criteria", arg |-> [criteria |-> c, ok |-> k]] :
        c \in CriteriaDicts("deal_ids"), k \in BOOLEAN}
    \cup {[fn |-> f, arg |-> [props_ok |-> k, pages |-> p, limit |-> l]] :
        f \in {"get_all_deals", "get_custom_objects"}, k \in {TRUE},
        p \in PageSeqs, l \in PageLimits}
    \cup {[fn |-> "get_all_tickets", arg |-> [props_ok |-> k, pages |-> p, limit |-> l]] :
        k \in BOOLEAN, p \in PageSeqs, l \in PageLimits}
    \cup UNION {{[fn |-> "migrate_specific_companies",
                   arg |-> [companies |-> c, answers |-> a]] :
                     c \in [1 .. n -> SourceCompanies], a \in [1 .. n -> CompanyAnswers]} :
                 n \in 0 .. MaxBatch}

InitFilters ==
    /\ prog = "filters"
    /\ pc = "start"
    /\ reqs = {}
    /\ HttpIdle
    /\ MigratorIdle
    /\ AssociationsIdle
    /\ SelectiveIdle
    /\ report = NoReport
    /\ written = 0
    /\ RunIdle
    /\ runs = <<>>
    /\ call \in FilterCalls
    /\ ret = NoCall

NextFilters ==
    \/ call_is_writable_property
    \/ call_is_property_name_writable
    \/ call_is_writable_deal_property
    \/ call_deal_is_property_name_writable
    \/ call_clean_property_value
    \/ call_deal_clean_property_value
    \/ call_filter_contact_properties
    \/ call_clean_deal_properties
    \/ call_update_contact_in_sandbox
    \/ call_get_contacts_by_criteria
    \/ call_get_deals_by_criteria
    \/ call_migrate_specific_companies
    \/ call_get_all_deals
    \/ call_get_all_tickets
    \/ call_get_custom_objects

FilterSpec == InitFilters /\ [][NextFilters]_vars

----------------------------------------------------------------------------
(* Properties *)

Last(seq) == seq[Len(seq)]

Statuses(rs) == [k \in 1 .. Len(rs) |-> rs[k].status]

ObjectMigrators == {"contacts", "deals", "tickets", "custom"}

\* The source id an entry of created/updated/failed stands for.
EntryId(e) == IF prog = "deals" THEN e.prod_id ELSE e

Times(list, i) == Cardinality({k \in 1 .. Len(list) : EntryId(list[k]) = i})

\* The sandbox held the key of source record i before record i was processed.
HeldBefore(i) == \E s \in sandbox : s.key = source[i] /\ s.id # NewId(i)

\* C1: every data-changing request (a POST that creates, a PATCH, a DELETE)
\* carries the sandbox token; the production token appears only on reads
\* and searches.
C1_WritesCarrySandboxToken ==
    \A r \in reqs : IsWrite(r) => r.token = sandbox_token

C1_Witness ==
    /\ \E r \in reqs : r.method = "POST" /\ r.endpoint = "deals"
    /\ \E r \in reqs : r.token = prod_token

\* C2: a call with max_retries = N sends at most N + 1 requests and has
\* returned once N + 1 were sent; after 429, 429, 429, 200 it has returned
\* ok = True having retried exactly three times.
C2_AtMostNPlusOneRequests ==
    prog = "http" =>
        /\ Len(responses) <= max_retries + 1
        /\ (Len(responses) = max_retries + 1 => pc = "returned")
        /\ (pc = "request" => Len(responses) = attempt)
        /\ (Statuses(responses) = <<429, 429, 429, 200>> =>
               pc = "returned" /\ http_ok /\ Len(slept) = 3)

C2_Witness ==
    /\ prog = "http"
    /\ pc = "returned"
    /\ Statuses(responses) = <<429, 429, 429, 200>>
    /\ http_ok

\* C3: the call returns ok = True exactly when its final response has
\* status 200, 201, 202, 204 or 409; any other final outcome gives False.
C3_OkIffSuccessStatus ==
    prog = "http" /\ pc = "returned" =>
        (http_ok <=> (Last(responses).exc = "none"
                      /\ Last(responses).status \in {200, 201, 202, 204, 409}))

C3_Witness ==
    /\ prog = "http"
    /\ pc = "returned"
    /\ Last(responses).status = 409
    /\ http_ok

\* C4: every destination id recorded for a source id (deal report entries,
\* ticket and custom-object mappings) is the id of a record the sandbox
\* holds: never a missing or placeholder id.
C4_MappedIdsExist ==
    /\ prog = "deals" =>
          /\ \A k \in 1 .. Len(created) : created[k].sandbox_id \in ids(sandbox)
          /\ \A k \in 1 .. Len(updated) : updated[k].sandbox_id \in ids(sandbox)
    /\ prog \in {"tickets", "custom"} =>
          \A i \in DOMAIN mapping : mapping[i] \in ids(sandbox)
    /\ prog = "selective" =>
          /\ \A i \in DOMAIN mapping : mapping[i] \in ids(sandbox_deals)
          /\ \A i \in DOMAIN contact_mapping : contact_mapping[i] \in ids(sandbox)

\* C5: a source contact whose email the sandbox already holds gets no
\* create request and is counted as updated.
C5_ExistingEmailIsUpdated ==
    prog = "contacts" =>
        \A i \in 1 .. idx :
            (source[i] # "" /\ HeldBefore(i)) =>
                /\ create_contact_request(sandbox_token, i) \notin reqs
                /\ Times(updated, i) = 1

\* The source records the migrator fetched.
FetchedIds ==
    IF prog = "contacts" THEN 1 .. Len(source)
    ELSE {prod_records[k] : k \in 1 .. Len(prod_records)}

\* C7: when an object migrator has left its loop, every fetched source
\* record is counted in exactly one of created, updated/skipped, failed.
C7_EveryRecordCountedOnce ==
    prog \in ObjectMigrators /\ pc \in {"done", "crashed"} =>
        /\ \A i \in FetchedIds :
              Times(created, i) + Times(updated, i) + Times(failed, i) = 1
        /\ prog = "contacts" =>
              stats.migrated + stats.updated + stats.failed = stats.total

\* The source associations the deal association migrator obtained, as
\* (deal, target) pairs, and those whose target has a mapping entry.
Pairs(listing) == {p \in (1 .. Len(listing)) \X (ContactIds \cup CompanyIds) :
                      p[2] \in listing[p[1]]}

MappedPairs(listing, id_mapping) == {p \in Pairs(listing) : p[2] \in DOMAIN id_mapping}

AssociationPosts(to_type) ==
    {r \in reqs : r.method = "POST"
                  /\ r.endpoint = "associations/deals/" \o to_type \o "/batch/create"}

\* C6 (translation): every obtained association whose target is mapped is
\* sent, translated through both mappings, to the batch endpoint; no other
\* association request is made, and with no failed batch each pair is
\* counted once.
C6_MappedPairsTranslated ==
    prog = "dealassoc" /\ pc = "done" =>
        /\ AssociationPosts("contacts") =
              {association_request("deals", "contacts", mapping[p[1]],
                                   contact_mapping[p[2]]) :
                  p \in MappedPairs(seen.contacts, contact_mapping)}
        /\ AssociationPosts("companies") =
              {association_request("deals", "companies", mapping[p[1]],
                                   company_mapping[p[2]]) :
                  p \in MappedPairs(seen.companies, company_mapping)}
        /\ report.summary.failed_associations = 0 =>
              /\ report.summary.total_contact_links =
                    Cardinality(MappedPairs(seen.contacts, contact_mapping))
              /\ report.summary.total_company_links =
                    Cardinality(MappedPairs(seen.companies, company_mapping))

\* C6 (unmapped targets): a pair whose target has no mapping entry never
\* puts its deal on the failed list.
C6_UnmappedNeverFailed ==
    prog = "dealassoc" =>
        \A k \in 1 .. Len(failed) :
            \E p \in IF failed[k].type = "contact"
                     THEN MappedPairs(seen.contacts, contact_mapping)
                     ELSE MappedPairs(seen.companies, company_mapping) :
                mapping[p[1]] = failed[k].deal_id

\* The obtained associations whose target has no mapping entry.
UnmappedPairs ==
    {<<"contact", p>> : p \in Pairs(seen.contacts)
                               \ MappedPairs(seen.contacts, contact_mapping)}
    \cup {<<"company", p>> : p \in Pairs(seen.companies)
                                    \ MappedPairs(seen.companies, company_mapping)}

\* C6: every source association with both sides mapped is sent translated
\* to the batch endpoint and counted once; a pair with an unmapped side
\* causes no request, is not on the failed list, and is counted as skipped.
C6_TranslatedOnceOrSkipped ==
    /\ C6_MappedPairsTranslated
    /\ C6_UnmappedNeverFailed
    /\ prog = "dealassoc" /\ pc = "done" /\ UnmappedPairs # {} =>
          /\ "skipped" \in DOMAIN report.summary
          /\ report.summary.skipped = Cardinality(UnmappedPairs)

\* The selective sync of two contacts and one deal of one of them into an
\* empty sandbox has ended with both contacts and the deal created and the
\* association accepted.
TwoContactsOneDealSynced ==
    /\ prog = "selective"
    /\ pc = "done"
    /\ source = <<"a", "b">>
    /\ prod_records = <<>>
    /\ Cardinality(assoc.contacts[1]) = 1
    /\ sandbox = {[key |-> "a", id |-> NewId(1)], [key |-> "b", id |-> NewId(2)]}
    /\ sandbox_deals = {[key |-> DealName, id |-> NewId(1)]}
    /\ results.associations_created = 1

\* C8: after that sync the report summary reads contacts_synced = 2,
\* deals_synced = 1 and associations_created = 1.
C8_ReportCountsTheAssociation ==
    TwoContactsOneDealSynced =>
        /\ report.kind = "selective_sync"
        /\ report.summary.contacts_synced = 2
        /\ report.summary.deals_synced = 1
        /\ "associations_created" \in DOMAIN report.summary
        /\ report.summary.associations_created = 1

IsPrefix(s, t) == Len(s) <= Len(t) /\ \A k \in 1 .. Len(s) : s[k] = t[k]

\* C9: a run with no flag on a valid configuration calls the twelve steps
\* in program order, and when it has returned all twelve were called and
\* the result is success.
C9_AllStepsThenSuccess ==
    prog = "run" /\ is_secure /\ args = NoArgs =>
        /\ IsPrefix(steps, StepOrder)
        /\ pc = "done" => steps = StepOrder /\ run_result = "success"

\* C10: rollback and reset send no DELETE for a pipeline the sandbox held
\* before the migration.
C10_PreExistingNeverDeleted ==
    prog = "pipelines" =>
        \A r \in reqs : r.method = "DELETE" => r.a \notin ids(PreExisting(Keys))

RollbackEnded ==
    \/ prog \in {"deals", "tickets"} /\ pc \in {"rolled_back", "rollback_crashed", "no_reports"}
    \/ prog = "pipelines" /\ pc \in {"rolled_back", "crashed", "reset"}

\* C11: once the rollback of a run's report has ended, a DELETE has been
\* issued for every record and pipeline the run created in the sandbox.
C11_EveryCreatedIdDeleted ==
    RollbackEnded =>
        \A s \in sandbox :
            s.id \in {NewId(i) : i \in 1 .. Len(source)} =>
                \E r \in reqs : r.method = "DELETE" /\ r.a = s.id

\* C12: with --dry-run, whatever the other flags, run_migration calls no
\* property, object, association or verification step (the steps are the
\* only senders of requests and writers of reports).
C12_DryRunCallsNothing ==
    prog = "run" /\ args.dry_run => steps = <<>>

C12_Witness ==
    /\ prog = "run"
    /\ args.dry_run
    /\ args.deals_only
    /\ pc = "done"
    /\ run_result = "success"

\* C13: when a property sync or a pipeline sync that left nothing failed is
\* run a second time against the same sandbox, the second run creates
\* nothing: its created count is 0 and its skipped (already exists) count
\* is its total.
C13_SecondRunCreatesNothing ==
    Len(runs) >= 2 /\ runs[1].failed = 0 /\ runs[1].total > 0 =>
        runs[2].created = 0 /\ runs[2].skipped = runs[2].total

Returned(fns) == prog = "filters" /\ pc = "returned" /\ call.fn \in fns

WritabilityChecks ==
    {"is_writable_property", "is_property_name_writable", "is_writable_deal_property",
     "deal_is_property_name_writable"}

\* The read-only/system names: createdate, hs_object_id, hubspot_owner_id,
\* every name that starts with hs_, every non-core name that ends with _id.
ReadOnlyListed(prop_name) ==
    \/ prop_name \in {<<"createdate">>, <<"hs", "object", "id">>, <<"hubspot", "owner", "id">>}
    \/ Len(prop_name) >= 2 /\ prop_name[1] = "hs"
    \/ endswith_id(prop_name) /\ prop_name \notin core_fields \cup deal_core_fields

\* C14: every writability check (with metadata and by name only, contact
\* filter and deal filter) answers false for every read-only/system name.
C14_ReadOnlyNamesRefused ==
    Returned(WritabilityChecks) /\ ReadOnlyListed(lower(call.arg.name)) => ret.value = FALSE

\* C15: the metadata writability check of each filter answers true for every
\* name of its core-field allow-list, whatever the three flags of the property.
C15_CoreFieldsWritable ==
    /\ Returned({"is_writable_property"}) /\ lower(call.arg.name) \in core_fields
           => ret.value = TRUE
    /\ Returned({"is_writable_deal_property"}) /\ lower(call.arg.name) \in deal_core_fields
           => ret.value = TRUE

C15_Witness ==
    /\ Returned({"is_writable_property"})
    /\ call.arg.name = <<"email">>
    /\ call.arg.hubspotDefined /\ call.arg.readOnlyValue /\ call.arg.calculated
    /\ ret.value = TRUE

IsEmail(value) == value.type = "str" /\ \E k \in 1 .. Len(value.str) : value.str[k] = "@"

\* C16: filter_contact_properties with is_update never returns email; without
\* is_update it keeps an email address of the input; and no PATCH body of
\* update_contact_in_sandbox carries email.
C16_EmailOnlyOnCreate ==
    /\ Returned({"filter_contact_properties"}) /\ call.arg.is_update
           => <<"email">> \notin DOMAIN ret.value
    /\ Returned({"filter_contact_properties"}) /\ ~call.arg.is_update
         /\ <<"email">> \in DOMAIN call.arg.properties
         /\ IsEmail(call.arg.properties[<<"email">>])
           => /\ <<"email">> \in DOMAIN ret.value
              /\ ret.value[<<"email">>] = Str(strip(call.arg.properties[<<"email">>].str))
    /\ Returned({"update_contact_in_sandbox"})
           => \A payload \in ret.value : <<"email">> \notin DOMAIN payload

C16_Witness ==
    /\ Returned({"update_contact_in_sandbox"})
    /\ <<"email">> \in DOMAIN call.arg.properties
    /\ IsEmail(call.arg.properties[<<"email">>])
    /\ \E payload \in ret.value : DOMAIN payload = {<<"firstname">>}

\* The values that must clean to absent: None, "", whitespace only, and
\* "none"/"null" in any letter case.
MustBeAbsent(value) ==
    \/ value.type = "NoneType"
    \/ /\ value.type = "str"
       /\ \/ \A k \in 1 .. Len(value.str) : value.str[k] \in Whitespace
          \/ str_lower(value.str) \in {<<"n", "o", "n", "e">>, <<"n", "u", "l", "l">>}

\* C17: cleaning a cleaned value changes nothing; None, "", whitespace and
\* "none"/"null" in any case clean to absent; and no such value is in a
\* filtered property map.
C17_CleanIdempotent ==
    /\ Returned({"clean_property_value"})
           => /\ clean_property_value(ret.value) = ret.value
              /\ MustBeAbsent(call.arg.value) => ret.value = PyNone
    /\ Returned({"deal_clean_property_value"})
           => /\ deal_clean_property_value(ret.value) = ret.value
              /\ MustBeAbsent(call.arg.value) => ret.value = PyNone
    /\ Returned({"filter_contact_properties", "clean_deal_properties"})
           => \A n \in DOMAIN ret.value : ~MustBeAbsent(ret.value[n])

C17_Witness ==
    /\ Returned({"clean_property_value"})
    /\ call.arg.value = Str(<<"N", "u", "l", "l">>)
    /\ ret.value = PyNone

\* The tier a request belongs to, by the property its filter tests.
Tiers == {"id", "email", "createdate", "all"}

TiersUsed(requests) == {r.filter : r \in requests} \cap Tiers

Restrict(criteria, keys) == [k \in DOMAIN criteria \cap keys |-> criteria[k]]

FirstContactTier(criteria) ==
    IF given(criteria, "contact_ids") THEN "id"
    ELSE IF given(criteria, "email_domains") THEN "email"
    ELSE IF "days_since_created" \in DOMAIN criteria THEN "createdate"
    ELSE "all"

FirstDealTier(criteria) ==
    IF given(criteria, "deal_ids") THEN "id"
    ELSE IF "days_since_created" \in DOMAIN criteria THEN "createdate"
    ELSE "all"

TierKeys(tier, ids_key) ==
    CASE tier = "id" -> {ids_key}
      [] tier = "email" -> {"email_domains", "limit"}
      [] tier = "createdate" -> {"days_since_created", "limit"}
      [] OTHER -> {"limit"}

\* C18: the requests of a selection belong to exactly one tier, the first
\* one given in the order ids, email domains, date, generic listing, and the
\* selected records are those selected by that tier's criteria alone.
C18_FirstTierDecides ==
    /\ Returned({"get_contacts_by_criteria"})
           => LET tier == FirstContactTier(call.arg.criteria) IN
              /\ TiersUsed(ret.value.requests) = {tier}
              /\ ret.value.selected =
                   get_contacts_by_criteria(
                       Restrict(call.arg.criteria, TierKeys(tier, "contact_ids")),
                       call.arg.ok).selected
    /\ Returned({"get_deals_by_criteria"})
           => LET tier == FirstDealTier(call.arg.criteria) IN
              /\ TiersUsed(ret.value.requests) = {tier}
              /\ ret.value.selected =
                   get_deals_by_criteria(
                       Restrict(call.arg.criteria, TierKeys(tier, "deal_ids")),
                       call.arg.ok).selected

C18_Witness ==
    /\ Returned({"get_contacts_by_criteria"})
    /\ DOMAIN call.arg.criteria = {"email_domains", "days_since_created", "limit"}
    /\ call.arg.criteria["email_domains"] = <<"x">>
    /\ call.arg.criteria["days_since_created"] = 5
    /\ call.arg.criteria["limit"] = 2
    /\ ret.value.selected = <<1, 3>>

\* C19: migrate.py started with --selective-contacts or --selective-deals
\* and --days-since-created is sent to handle_selective_sync, runs the sync
\* of the Selective Sync Manager, saves a selective sync report and exits
\* with code 0.
C19_SelectiveSyncExitsZero ==
    /\ prog = "main"
    /\ pc = "exited"
    /\ call.arg.selective_contacts \/ call.arg.selective_deals
    /\ call.arg.days_since_created # None
    => /\ "handle_selective_sync" \in Range(steps)
       /\ "save_selective_sync_report" \in Range(steps)
       /\ report.kind = "selective_sync"
       /\ ret.value = 0

\* The deals whose associations production holds but the migrator did not
\* obtain: a GET of get_deal_associations failed.
FailedFetches ==
    {d \in 1 .. Len(mapping) :
        \/ seen.contacts[d] # assoc.contacts[d]
        \/ seen.companies[d] # assoc.companies[d]}

\* C20: every failed request of a run has an entry in the failed collection
\* that the run report counts; here, every deal whose association fetch
\* failed has a failed_associations entry once the report is written.
C20_FailedFetchIsReported ==
    prog = "dealassoc" /\ pc = "done" =>
        /\ report.summary.failed_associations = Len(failed)
        /\ \A d \in FailedFetches : \E k \in 1 .. Len(failed) : failed[k].deal_id = mapping[d]

\* The run of a migration or sync entry point has ended normally.
RunCompleted ==
    \/ prog \in {"contacts", "dealassoc", "selective", "pipelines", "propsync"} /\ pc = "done"
    \/ prog \in {"deals", "tickets"} /\ pc = "reported"

\* C21: a run that completes has written its report exactly once: never
\* none, never two.
C21_ReportWrittenOnce ==
    RunCompleted => written = 1

\* The paginated fetch of an object migrator lost a page: it returned fewer
\* records than the production portal holds.
PaginationFailed ==
    /\ prog \in {"deals", "tickets", "custom"}
    /\ pc \notin {"start", "aborted"}
    /\ Len(prod_records) < Len(source)

\* C22: when a page of the source listing cannot be fetched the object
\* migrator aborts: it sends no create request and records nothing as
\* created or updated.
C22_FailedPageAborts ==
    PaginationFailed =>
        /\ created = <<>> /\ updated = <<>>
        /\ \A r \in reqs : ~IsWrite(r)

\* load_mappings has run on the reports of the migrator of this run.
MappingsLoadedAfterRun == pc \in {"mappings_loaded", "no_mappings"}

\* The deal mapping holds every pair of the deal migrator's lists.
DealPairsLoaded(entries) ==
    \A k \in 1 .. Len(entries) :
        /\ entries[k].prod_id \in DOMAIN mapping
        /\ mapping[entries[k].prod_id] = entries[k].sandbox_id

\* C23: run after the migrators of this repository, load_mappings finds
\* their reports and loads every source id they created or matched into
\* the deal and contact mappings.
C23_LoadedMappingsComplete ==
    MappingsLoadedAfterRun =>
        /\ pc = "mappings_loaded"
        /\ prog = "deals" => DealPairsLoaded(created) /\ DealPairsLoaded(updated)
        /\ prog = "contacts" =>
              \A i \in Range(created) \cup Range(updated) : i \in DOMAIN contact_mapping

\* C24: a deal migration started after a pipeline sync that returned
\* success finds the pipeline mapping report and does not abort for a
\* missing mapping, also when every source pipeline is the default one.
C24_SuccessLeavesMapping ==
    prog = "pipelines" /\ pc = "deals_aborted" => ~migrate_deal_pipelines_returned

\* C25: two source deals with the same name and amount, processed in one
\* run of the deal migrator, lead to one destination deal: at most one of
\* them gets a create request.
C25_EqualDealsCreatedOnce ==
    prog = "deals" =>
        \A i, j \in 1 .. Len(source) :
            (i < j /\ source[i] # "" /\ source[i] = source[j]) =>
                ~(create_deal_request(i) \in reqs /\ create_deal_request(j) \in reqs)

RECURSIVE SumSeq(_)
SumSeq(seq) == IF seq = <<>> THEN 0 ELSE Head(seq) + SumSeq(Tail(seq))

\* The wait that followed the k-th response of the call: every response
\* that did not end the call was followed by one sleep, made at attempt k - 1.
WaitAfter(k) == slept[k]

\* The original statement of C26: after a 429 the wait is the Retry-After
\* value itself when the header is present, else backoff_factor^attempt
\* capped at 60; after a 5xx it is backoff_factor^attempt capped at 30.
C26_WaitsAsStated ==
    prog = "http" =>
        \A k \in 1 .. Len(slept) :
            LET r == responses[k] IN
            /\ (r.status = 429 /\ r.retry_after # NoHeader) =>
                   WaitAfter(k) = r.retry_after
            /\ (r.status = 429 /\ r.retry_after = NoHeader) =>
                   WaitAfter(k) = Min(Pow(backoff_factor, k - 1), 60)
            /\ r.status \in {500, 502, 503, 504} =>
                   WaitAfter(k) = Min(Pow(backoff_factor, k - 1), 30)

\* C26: every wait before a retry is bounded.  After a 429 it is the
\* Retry-After value capped at 300 seconds when the header is present, else
\* backoff_factor^attempt capped at 60; after a 5xx it is
\* backoff_factor^attempt capped at 30; after a timeout or a connection error
\* backoff_factor^attempt capped at 10.  A call waits at most max_retries
\* times, so its total sleep is at most max_retries * 300 seconds.
C26_WaitsBounded ==
    prog = "http" =>
        /\ Len(slept) <= max_retries
        /\ Len(slept) <= Len(responses)
        /\ \A k \in 1 .. Len(slept) :
              LET r == responses[k] IN
              /\ (r.status = 429 /\ r.retry_after # NoHeader) =>
                     WaitAfter(k) = Min(r.retry_after, 300)
              /\ (r.status = 429 /\ r.retry_after = NoHeader) =>
                     WaitAfter(k) = Min(Pow(backoff_factor, k - 1), 60)
              /\ r.status \in {500, 502, 503, 504} =>
                     WaitAfter(k) = Min(Pow(backoff_factor, k - 1), 30)
              /\ r.exc \in {"Timeout", "ConnectionError"} =>
                     WaitAfter(k) = Min(Pow(backoff_factor, k - 1), 10)
              /\ WaitAfter(k) <= 300
        /\ SumSeq(slept) <= max_retries * 300

\* A call that met a Retry-After above the cap, then a 5xx and a 429 without
\* header late enough for their caps to apply, and returned.
C26_Witness ==
    /\ prog = "http"
    /\ pc = "returned"
    /\ backoff_factor = 8
    /\ Len(slept) = 3
    /\ responses[1].retry_after = 400
    /\ responses[2].status = 503
    /\ responses[3].status = 429 /\ responses[3].retry_after = NoHeader
    /\ slept = <<300, 8, 60>>

\* The labels of the pipelines whose create request succeeded in the run
\* that wrote the report: pipeline_mapping lists them first.
SucceededPipelines ==
    {source[report.pipeline_mapping[k].prod_id] :
        k \in 1 .. report.summary.pipelines_created}

\* C27: the created_pipelines list of the pipeline report holds exactly the
\* names whose create request succeeded in that run.
C27_CreatedListIsExact ==
    prog = "pipelines" /\ report.kind = "pipelines" =>
        Range(report.created_pipelines) = SucceededPipelines

\* The ids handed to delete_objects or delete_pipelines by the rollback of
\* the report of this run.
IdsToDelete ==
    IF prog = "deals" THEN truthy_sandbox_ids(report.created_deals)
    ELSE IF prog = "pipelines" THEN mapping_values(report.pipeline_mapping)
    ELSE <<>>

DeleteRequest(id) ==
    IF prog = "pipelines" THEN delete_pipeline_request(id)
    ELSE delete_object_request("deals", id)

\* delete_objects or delete_pipelines was called and control has left it.
DeleteCallEnded ==
    \/ prog = "deals" /\ pc \in {"rolled_back", "rollback_crashed"}
    \/ prog = "pipelines" /\ pc \in {"rolled_back", "reset", "crashed"}

\* C28: delete_objects and delete_pipelines send one DELETE per id of the
\* list they are given and return their counts, whatever each DELETE
\* answered: the call ends by returning, with every id requested.
C28_OneDeletePerIdThenCounts ==
    DeleteCallEnded =>
        /\ pc \notin {"crashed", "rollback_crashed"}
        /\ \A k \in 1 .. Len(IdsToDelete) : DeleteRequest(IdsToDelete[k]) \in reqs

\* The companies' fields as _migrate_specific_companies reads them.
SameNormalizedDomain(c, d) ==
    /\ normalize_domain(strip(c.domain)) # <<>>
    /\ normalize_domain(strip(c.domain)) = normalize_domain(strip(d.domain))

SameLongName(c, d) ==
    /\ Len(str_lower(strip(c.name))) > 3
    /\ str_lower(strip(c.name)) = str_lower(strip(d.name))

SameNormalizedPhone(c, d) ==
    /\ normalize_phone(strip(c.phone)) # <<>>
    /\ normalize_phone(strip(c.phone)) = normalize_phone(strip(d.phone))

SharesKey(c, d) ==
    SameNormalizedDomain(c, d) \/ SameLongName(c, d) \/ SameNormalizedPhone(c, d)

CompaniesMigrated == prog = "filters" /\ ret.fn = "migrate_specific_companies"

\* The i-th company of the batch was found by a search or created.
FoundOrCreated(log, i) ==
    \E k \in 1 .. Len(log) :
        log[k].company = i /\ log[k].op \in {"search", "create"} /\ log[k].ok

RequestsFor(log, i, ops) ==
    SelectSeq(log, LAMBDA e : e.company = i /\ e.op \in ops)

\* C29: within one call of _migrate_specific_companies, when a company was
\* found in the sandbox or created successfully, a later company of the batch
\* that shares its normalized domain, its lower-cased name of more than 3
\* characters or its normalized phone is resolved from the in-batch cache: it
\* is counted as migrated and no search and no create is sent for it, so the
\* companies sharing such a key lead to at most one successful create.
C29_SharedKeyResolvedFromCache ==
    CompaniesMigrated =>
        LET companies == call.arg.companies
            log == ret.value.log
        IN  \A i, j \in 1 .. Len(companies) :
                /\ i < j
                /\ SharesKey(companies[i], companies[j])
                /\ FoundOrCreated(log, i)
                => /\ RequestsFor(log, j, {"search", "create", "update", "verify"}) = <<>>
                   /\ Len(RequestsFor(log, j, {"cached"})) = 1
                   /\ Len(SelectSeq(log, LAMBDA e : e.op = "create" /\ e.ok
                                                    /\ e.company \in {i, j})) <= 1

\* Two companies that write one phone number in two ways: the first is
\* created, the second is resolved from the cache and both are counted.
C29_Witness ==
    /\ CompaniesMigrated
    /\ Len(call.arg.companies) = 2
    /\ ~SameNormalizedDomain(call.arg.companies[1], call.arg.companies[2])
    /\ ~SameLongName(call.arg.companies[1], call.arg.companies[2])
    /\ call.arg.companies[1].phone # call.arg.companies[2].phone
    /\ SameNormalizedPhone(call.arg.companies[1], call.arg.companies[2])
    /\ RequestsFor(ret.value.log, 1, {"create"}) = <<LogEntry("create", 1, TRUE)>>
    /\ RequestsFor(ret.value.log, 2, {"cached"}) = <<LogEntry("cached", 2, TRUE)>>
    /\ ret.value.migrated_count = 2

PagesFetched ==
    prog = "filters" /\ ret.fn \in {"get_all_deals", "get_all_tickets", "get_custom_objects"}

\* A page that ends a fetch: it brings no record (an empty page, a failed
\* request, a page past the last one) or no cursor to a next page.
EndsFetch(pages, k) ==
    \/ k > Len(pages)
    \/ ~pages[k].ok
    \/ pages[k].n = 0
    \/ ~pages[k].next

\* The records of the first n pages, page after page.
RECURSIVE FirstPages(_, _)
FirstPages(pages, n) ==
    IF n = 0 THEN <<>> ELSE FirstPages(pages, n - 1) \o get_batch(pages, n)

\* C30: a paginated fetch (get_all_deals, get_all_tickets,
\* get_custom_objects) requests no page after one that is empty or carries
\* no next cursor; what it returns is the records of the pages it requested,
\* in fetch order and each page once, and with a positive limit the first
\* limit of them at most; without a limit it requests every page up to the
\* first that ends the fetch.
C30_PagesInOrderUpToLimit ==
    PagesFetched =>
        LET pages == call.arg.pages
            limit == call.arg.limit
            requested == ret.value.requested
            all == ret.value.all
            records == FirstPages(pages, requested)
        IN  /\ \A k \in 1 .. requested - 1 : ~EndsFetch(pages, k)
            /\ limit = None => all = records
            /\ limit = None /\ requested > 0 => EndsFetch(pages, requested)
            /\ limit # None =>
                  /\ Len(all) <= limit
                  /\ all = SubSeq(records, 1, Len(all))
                  /\ Len(all) < limit /\ requested > 0 =>
                        all = records /\ EndsFetch(pages, requested)

\* Two pages of two deals and a limit of three: the second page is requested
\* and only its first deal is returned.
C30_Witness ==
    /\ prog = "filters"
    /\ ret.fn = "get_all_deals"
    /\ call.arg.limit = 3
    /\ Len(call.arg.pages) = 2
    /\ call.arg.pages[1] = [ok |-> TRUE, n |-> 2, next |-> TRUE]
    /\ call.arg.pages[2].n = 2
    /\ ret.value = [all |-> <<<<1, 1>>, <<1, 2>>, <<2, 1>>>>, requested |-> 2]

====
